---- MODULE Spec2Model ----
(***************************************************************************)
(* Order-item fulfillment / return state machine of the AlmirahShop API    *)
(* (src/main.py), with the authorization dependencies of src/auth_utils.py *)
(* and the order-status aggregation update_order_status_from_items.        *)
(*                                                                         *)
(* Tables are functions from primary keys to rows.  A nullable string      *)
(* column holds NULL, a nullable integer / foreign key holds NULL_ID and a *)
(* nullable DateTime holds NULL_TIME.  The string "None" is the initial    *)
(* value of order_items.return_status and is distinct from NULL.           *)
(***************************************************************************)
EXTENDS Integers, Sequences, FiniteSets, TLC

VARIABLES
    users,        \* users table: id -> [email, role, is_admin, is_active, is_approved,
                  \*                       has_address, otp, otp_expiry, hashed_password,
                  \*                       reset_token, reset_token_expires]
    addresses,    \* addresses table: set of [id, user_id, is_default, tag]
    products,     \* products table: id -> [seller_id, price, is_verified, verification_status]
    variants,     \* product_variants table: id -> [product_id, size, color, image_url, price]
    cart_items,   \* cart_items table: set of [user_id, product_id, variant_id, quantity]
    orders,       \* orders table: id -> [user_id, status]
    order_items,  \* order_items table: id -> row (see NewOrderItem)
    now,          \* datetime.utcnow()
    overrides,    \* admin overrides made so far: [status, return_status]
    response,     \* the response of the last request that committed
    sessions,     \* the accept and reject requests served in steps: sequence of
                  \* [op, caller, item, reason, loaded, pc]
    issued,       \* the reset tokens create_reset_token has returned: set of [user_id, token]
    active_connections,  \* WebSocketManager.active_connections: sequence of sockets
    admin_connections,   \* WebSocketManager.admin_connections: sequence of sockets
    seller_connections   \* WebSocketManager.seller_connections: seller_id -> sequence of sockets

vars == <<users, addresses, products, variants, cart_items, orders, order_items, now, overrides, response,
         sessions, issued, active_connections, admin_connections, seller_connections>>

(* ------------------------------ bounds -------------------------------- *)
\* rows in cart_items plus rows in order_items
MaxItems == 1
\* largest value of the clock
MaxClock == 2
\* admin override-status calls in one run
MaxStatusOverrides == 1
\* admin override-return-status calls in one run
MaxReturnOverrides == 1
\* items of the order whose aggregate is recomputed in SpecAggregate
MaxFold == 3
\* accept and reject requests served in steps in one run
MaxSessions == 2
\* rows in cart_items plus rows in order_items in SpecCheckout
MaxLines == 2
\* largest id of a row in products
MaxProducts == 3
\* largest id of a row in addresses
MaxAddresses == 3
\* reset tokens issued in one run
MaxTokens == 2
\* the last instant of the clock in SpecTokens
MaxTokenClock == 3
\* longest active_connections list
MaxConnections == 3
\* largest quantity of a cart line, and largest quantity a request names
MaxQuantity == 1

(* ------------------------------ values -------------------------------- *)
NULL == "NULL"
NULL_ID == 0
NULL_TIME == 0
\* users.reset_token that is NULL; the tokens generate_reset_token() returns are 1, 2, ...
NULL_TOKEN == 0
\* a Float column that is NULL; Python treats it and 0.0 alike in "x if x else y"
NULL_PRICE == 0

ItemStatuses == {"Pending", "Accepted", "Rejected", "Shipped", "Delivered", "Cancelled"}
ReturnStatuses == {"None", "ReturnRequested", "ReturnAccepted", "ReturnRejected",
                   "ReturnInTransit", "ReturnReceived", "RefundProcessed"}
OrderStatuses == {"Active", "Completed", "Cancelled"}

\* request bodies: an Optional[str] is NULL when omitted
Reasons == {NULL, "", "damaged"}
ReturnReasons == {"wrong size"}
Notes == {NULL, "note"}

Admins == {1}
Customers == {2, 3}
Sellers == {4, 5}
\* the users a bearer token can name
UserIds == DOMAIN users
\* bcrypt: the hash is not the password, and checkpw finds the password in the hash
hash_password(password) == <<"bcrypt", password>>
verify_password(plain_password, hashed_password) == hashed_password = hash_password(plain_password)
\* the password every account starts with
InitialPassword == "Initial-Passw0rd"
\* generate_otp(): a random six-digit string
Otps == {"111111", "222222"}

Max(S) == CHOOSE x \in S : \A y \in S : y <= x
NextId(table) == IF DOMAIN table = {} THEN 1 ELSE Max(DOMAIN table) + 1

\* all orderings in which a query without ORDER BY may list the rows of S
Listings(S) == {l \in [1..Cardinality(S) -> S] : \A i, j \in 1..Cardinality(S) : l[i] = l[j] => i = j}

\* SQL "a = b" on a nullable integer column: never true when a side is NULL
SqlEq(a, b) == a /= NULL_ID /\ b /= NULL_ID /\ a = b

Resp(op, caller, item, code, detail) ==
    [op |-> op, caller |-> caller, item |-> item, code |-> code, detail |-> detail]

\* no request has been answered yet
NoResponse == Resp("none", 0, 0, 0, <<>>)

\* what a handler does with a request: the response it returns and the tables it leaves
\* behind.  A raised HTTPException leaves the tables as they were.
Raise(op, caller, item, code, detail) ==
    [response |-> Resp(op, caller, item, code, detail),
     cart_items |-> cart_items, orders |-> orders, order_items |-> order_items]

Return(op, caller, item, carts, ords, items) ==
    [response |-> Resp(op, caller, item, 200, <<>>),
     cart_items |-> carts, orders |-> ords, order_items |-> items]

(* -------------------------- authorization ----------------------------- *)
\* the 403 of a role dependency, or <<>> when the caller passes
admin_only(u) ==
    IF users[u].role = "admin" \/ users[u].is_admin
    THEN <<>> ELSE <<"Admin access required">>

seller_only(u) ==
    IF users[u].role /= "seller" THEN <<"Seller access required">>
    ELSE IF ~users[u].is_approved THEN <<"SellerNotApproved">>
    ELSE <<>>

customer_only(u) ==
    IF users[u].role /= "customer" THEN <<"Customer access required">> ELSE <<>>

(* -------------------------- order aggregate --------------------------- *)
\* the status written by update_order_status_from_items for the listed item statuses
AggregateStatusAnyRejected(statuses) ==
    LET all_delivered == \A k \in 1..Len(statuses) : statuses[k] = "Delivered"
        has_rejected  == \E k \in 1..Len(statuses) : statuses[k] = "Rejected"
    IN  IF all_delivered THEN "Completed"
        ELSE IF has_rejected THEN "Cancelled"
        ELSE "Active"

AggregateStatus(statuses) ==
    LET all_delivered == \A k \in 1..Len(statuses) : statuses[k] = "Delivered"
        all_rejected  == \A k \in 1..Len(statuses) : statuses[k] = "Rejected"
    IN  IF all_delivered THEN "Completed"
        ELSE IF all_rejected THEN "Cancelled"
        ELSE "Active"

ItemsOf(order_id, items) == {i \in DOMAIN items : items[i].order_id = order_id}

\* the orders table after update_order_status_from_items(order_id), the items
\* having been listed in the order `listing`
update_order_status_from_items(order_id, ords, items, listing) ==
    IF order_id \notin DOMAIN ords THEN ords
    ELSE IF Len(listing) = 0 THEN ords
    ELSE LET statuses == [k \in 1..Len(listing) |-> items[listing[k]].status]
         IN  [ords EXCEPT ![order_id].status = AggregateStatus(statuses)]

(* ------------------------------- Init --------------------------------- *)
\* WebSocketManager.__init__
InitManager ==
    /\ active_connections = <<>>
    /\ admin_connections = <<>>
    /\ seller_connections = <<>>

InitUsers ==
    [u \in Admins \cup Customers \cup Sellers |->
        [email       |-> u,
         role        |-> IF u \in Admins THEN "admin" ELSE IF u \in Customers THEN "customer" ELSE "seller",
         is_admin    |-> (u \in Admins),
         is_active   |-> TRUE,
         is_approved |-> TRUE,
         has_address |-> (u = 2),
         otp         |-> NULL,
         otp_expiry  |-> NULL_TIME,
         hashed_password     |-> hash_password(InitialPassword),
         reset_token         |-> NULL_TOKEN,
         reset_token_expires |-> NULL_TIME]]

InitAddresses ==
    {[id |-> 1, user_id |-> 2, is_default |-> TRUE, tag |-> "home"]}

\* product 1 is sold by seller 4 in one variant, product 2 has no seller and no variant;
\* both have been approved by an admin
InitProducts ==
    (1 :> [seller_id |-> 4, price |-> 10, is_verified |-> TRUE,
           verification_status |-> "Approved"])
    @@ (2 :> [seller_id |-> NULL_ID, price |-> 10, is_verified |-> TRUE,
              verification_status |-> "Approved"])

InitVariants ==
    (1 :> [product_id |-> 1, size |-> "M", color |-> "Red", image_url |-> "/uploads/a.jpg",
           price |-> 20])

Init ==
    /\ users = InitUsers
    /\ addresses = InitAddresses
    /\ products = InitProducts
    /\ variants = InitVariants
    /\ cart_items = {}
    /\ orders = <<>>
    /\ order_items = <<>>
    /\ now = 1
    /\ overrides = [status |-> 0, return_status |-> 0]
    /\ response = NoResponse
    /\ sessions = <<>>
    /\ issued = {}
    /\ InitManager

(* ------------------------------- clock -------------------------------- *)
\* time passes, up to `limit`
TickWithin(limit) ==
    /\ now < limit
    /\ now' = now + 1
    /\ UNCHANGED <<users, addresses, products, variants, cart_items, orders, order_items, overrides, response, sessions,
                 issued, active_connections, admin_connections, seller_connections>>

Tick == TickWithin(MaxClock)

(* ------------------------------ requests ------------------------------ *)
\* A request whose handler raises changes no table and is no step of the model; a
\* request whose handler returns is the step from the tables it read to the tables
\* it committed.
Commit(result) ==
    /\ result.response.code = 200
    /\ response' = result.response
    /\ cart_items' = result.cart_items
    /\ orders' = result.orders
    /\ order_items' = result.order_items

(* -------------------------------- cart -------------------------------- *)
\* db.query(ProductVariant).filter(ProductVariant.product_id == product_id).all()
VariantsOf(product_id) == {v \in DOMAIN variants : variants[v].product_id = product_id}

\* filter(CartItem.user_id == user.id, CartItem.product_id == product_id)
CartLinesOf(u, product_id) == {c \in cart_items : c.user_id = u /\ c.product_id = product_id}

\* a request of a user whose row is gone: "user.id" of None raises, the answer is 500
NoUser == <<"Internal Server Error">>

\* what ".first()" returns when no row matches
NoCartItem == [user_id |-> NULL_ID, product_id |-> NULL_ID, variant_id |-> NULL_ID, quantity |-> 0]

\* the rows ".first()" may return for a query that matches the rows S: the one inserted
\* first, which the rows do not record
First(S) == IF S = {} THEN {NoCartItem} ELSE S

\* the lines POST /cart/add looks for: with variants the match is on variant_id, without
\* them on the legacy size and color, which are null on every line
MatchingLines(u, product_id, variant_id) ==
    IF VariantsOf(product_id) /= {}
    THEN {c \in CartLinesOf(u, product_id) : c.variant_id = variant_id}
    ELSE CartLinesOf(u, product_id)

\* cart_items with the quantity of one line rewritten
WithQuantity(cart_item, quantity) ==
    (cart_items \ {cart_item}) \cup {[cart_item EXCEPT !.quantity = quantity]}

\* the answer of a handler that deleted the line: HTTPException(status_code=200) after
\* the commit
Removed(op, u, product_id, cart_item) ==
    [response |-> Resp(op, u, product_id, 200, <<"Item removed from cart">>),
     cart_items |-> cart_items \ {cart_item}, orders |-> orders, order_items |-> order_items]

\* POST /cart/add for a product without legacy sizes and colors, cart_item being the line
\* the query found.  A line found gains the quantity of the request, else a line is added.
\* CartItemCreate.quantity is any integer.
add_to_cart_result(u, product_id, variant_id, quantity, cart_item) ==
    IF u \notin DOMAIN users
    THEN Raise("add_to_cart", u, product_id, 500, NoUser)
    ELSE IF product_id \notin DOMAIN products
    THEN Raise("add_to_cart", u, product_id, 404, <<"Product not found">>)
    ELSE IF VariantsOf(product_id) /= {} /\ variant_id = NULL_ID
    THEN Raise("add_to_cart", u, product_id, 400, <<"variant_id is required for products with variants">>)
    ELSE IF VariantsOf(product_id) /= {} /\ variant_id \notin VariantsOf(product_id)
    THEN Raise("add_to_cart", u, product_id, 404, <<"Variant not found or does not belong to this product">>)
    ELSE IF cart_item /= NoCartItem
    THEN Return("add_to_cart", u, product_id,
                WithQuantity(cart_item, cart_item.quantity + quantity), orders, order_items)
    ELSE Return("add_to_cart", u, product_id,
                cart_items \cup {[user_id    |-> u,
                                  product_id |-> product_id,
                                  variant_id |-> IF VariantsOf(product_id) /= {} THEN variant_id
                                                 ELSE NULL_ID,
                                  quantity   |-> quantity]},
                orders, order_items)

\* no line of the result holds more than MaxQuantity or less than -MaxQuantity
QuantitiesWithin(result) ==
    \A c \in result.cart_items : c.quantity <= MaxQuantity /\ c.quantity >= 0 - MaxQuantity

\* a cart request that committed
CommitCart(result) ==
    /\ QuantitiesWithin(result)
    /\ Commit(result)
    /\ UNCHANGED <<users, addresses, products, variants, now, overrides, sessions,
                 issued, active_connections, admin_connections, seller_connections>>

\* at most `limit` rows in cart_items and order_items together
add_to_cart_within(limit, u, product_id, variant_id, quantity) ==
    /\ Cardinality(cart_items) + Cardinality(DOMAIN order_items) < limit
    /\ \E cart_item \in First(MatchingLines(u, product_id, variant_id)) :
          CommitCart(add_to_cart_result(u, product_id, variant_id, quantity, cart_item))

add_to_cart(u, product_id, variant_id) == add_to_cart_within(MaxItems, u, product_id, variant_id, 1)

\* POST /cart/increase/{product_id}: the line found gains one; when there is none a
\* line is added for the product id as it came, without a variant
increase_cart_item_result(u, product_id, cart_item) ==
    IF u \notin DOMAIN users
    THEN Raise("increase_cart_item", u, product_id, 500, NoUser)
    ELSE IF cart_item /= NoCartItem
    THEN Return("increase_cart_item", u, product_id,
                WithQuantity(cart_item, cart_item.quantity + 1), orders, order_items)
    ELSE Return("increase_cart_item", u, product_id,
                cart_items \cup {[user_id |-> u, product_id |-> product_id,
                                  variant_id |-> NULL_ID, quantity |-> 1]},
                orders, order_items)

increase_cart_item(limit, u, product_id) ==
    /\ Cardinality(cart_items) + Cardinality(DOMAIN order_items) < limit
    /\ \E cart_item \in First(CartLinesOf(u, product_id)) :
          CommitCart(increase_cart_item_result(u, product_id, cart_item))

\* POST /cart/decrease/{product_id}: a line with quantity one or less is deleted
decrease_cart_item_result(u, product_id, cart_item) ==
    IF u \notin DOMAIN users
    THEN Raise("decrease_cart_item", u, product_id, 500, NoUser)
    ELSE IF cart_item = NoCartItem
    THEN Raise("decrease_cart_item", u, product_id, 404, <<"Item not in cart">>)
    ELSE IF cart_item.quantity <= 1
    THEN Removed("decrease_cart_item", u, product_id, cart_item)
    ELSE Return("decrease_cart_item", u, product_id,
                WithQuantity(cart_item, cart_item.quantity - 1), orders, order_items)

decrease_cart_item(u, product_id) ==
    \E cart_item \in First(CartLinesOf(u, product_id)) :
        CommitCart(decrease_cart_item_result(u, product_id, cart_item))

\* PATCH /cart/quantity: a quantity of zero or less deletes the line
set_cart_item_quantity_result(u, product_id, quantity, cart_item) ==
    IF u \notin DOMAIN users
    THEN Raise("set_cart_item_quantity", u, product_id, 500, NoUser)
    ELSE IF cart_item = NoCartItem
    THEN Raise("set_cart_item_quantity", u, product_id, 404, <<"Item not in cart">>)
    ELSE IF quantity <= 0
    THEN Removed("set_cart_item_quantity", u, product_id, cart_item)
    ELSE Return("set_cart_item_quantity", u, product_id,
                WithQuantity(cart_item, quantity), orders, order_items)

set_cart_item_quantity(u, product_id, quantity) ==
    \E cart_item \in First(CartLinesOf(u, product_id)) :
        CommitCart(set_cart_item_quantity_result(u, product_id, quantity, cart_item))

(* ------------------------------ checkout ------------------------------ *)
\* "variant.price if variant.price else product.price"
PriceOf(product_id, variant_id) ==
    IF variant_id /= NULL_ID /\ variant_id \in DOMAIN variants
                             /\ variants[variant_id].price /= NULL_PRICE
    THEN variants[variant_id].price
    ELSE products[product_id].price

\* the value of a snapshot column: the variant's when the cart line names a variant that
\* exists, else null
Snapshot(variant_id, column) ==
    IF variant_id /= NULL_ID /\ variant_id \in DOMAIN variants
    THEN variants[variant_id][column]
    ELSE NULL

NewOrderItemAccepted(order_id, line) ==
    [order_id            |-> order_id,
     product_id          |-> line.product_id,
     variant_id          |-> line.variant_id,
     quantity            |-> line.quantity,
     price               |-> PriceOf(line.product_id, line.variant_id),
     variant_size        |-> Snapshot(line.variant_id, "size"),
     variant_color       |-> Snapshot(line.variant_id, "color"),
     variant_image_url   |-> Snapshot(line.variant_id, "image_url"),
     seller_id           |-> products[line.product_id].seller_id,
     status              |-> "Accepted",
     rejection_reason    |-> NULL,
     return_status       |-> "None",
     return_reason       |-> NULL,
     return_notes        |-> NULL,
     return_requested_at |-> NULL_TIME,
     return_processed_at |-> NULL_TIME,
     is_return_eligible  |-> TRUE]

\* the order item checkout creates for a cart line
NewOrderItem(order_id, line) ==
    [order_id            |-> order_id,
     product_id          |-> line.product_id,
     variant_id          |-> line.variant_id,
     quantity            |-> line.quantity,
     price               |-> PriceOf(line.product_id, line.variant_id),
     variant_size        |-> Snapshot(line.variant_id, "size"),
     variant_color       |-> Snapshot(line.variant_id, "color"),
     variant_image_url   |-> Snapshot(line.variant_id, "image_url"),
     seller_id           |-> products[line.product_id].seller_id,
     status              |-> "Pending",
     rejection_reason    |-> NULL,
     return_status       |-> "None",
     return_reason       |-> NULL,
     return_notes        |-> NULL,
     return_requested_at |-> NULL_TIME,
     return_processed_at |-> NULL_TIME,
     is_return_eligible  |-> TRUE]

\* the address a checkout delivers to, as the set of matching rows
CheckoutAddresses(u, address_id) ==
    IF address_id /= NULL_ID
    THEN {a \in addresses : a.id = address_id /\ a.user_id = u}
    ELSE {a \in addresses : a.user_id = u /\ a.is_default}

CartOf(u) == {c \in cart_items : c.user_id = u}

\* POST /orders/create, the cart lines having been listed in the order `listing`
create_order_result(u, address_id, listing) ==
    LET oid   == NextId(orders)
        first == NextId(order_items)
        new   == [k \in first..(first + Len(listing) - 1) |->
                    NewOrderItem(oid, listing[k - first + 1])]
    IN
    IF u \notin DOMAIN users
    THEN Raise("create_order", u, NULL_ID, 404, <<"User not found">>)
    ELSE IF ~users[u].has_address
    THEN Raise("create_order", u, NULL_ID, 400, <<"Address required before placing an order. Please add a delivery address.">>)
    ELSE IF CheckoutAddresses(u, address_id) = {}
    THEN IF address_id /= NULL_ID
         THEN Raise("create_order", u, NULL_ID, 404, <<"Address not found">>)
         ELSE Raise("create_order", u, NULL_ID, 400, <<"No default address found. Please select an address.">>)
    ELSE IF Len(listing) = 0
    THEN Raise("create_order", u, NULL_ID, 400, <<"Cart is empty">>)
    ELSE IF \E k \in 1..Len(listing) : listing[k].product_id \notin DOMAIN products
    THEN Raise("create_order", u, NULL_ID, 404, <<"Product not found">>)
    ELSE Return("create_order", u, oid,
                cart_items \ CartOf(u),
                orders @@ (oid :> [user_id |-> u, status |-> "Active"]),
                order_items @@ new)

create_order(u, address_id) ==
    /\ \E listing \in Listings(CartOf(u)) : Commit(create_order_result(u, address_id, listing))
    /\ UNCHANGED <<users, addresses, products, variants, now, overrides, sessions,
                 issued, active_connections, admin_connections, seller_connections>>

(* --------------------------- item lookups ----------------------------- *)
ItemIds == 1..(MaxItems + 1)

SellerItemFoundById(i, u) ==
    i \in DOMAIN order_items

SellerItemFoundAnySeller(i, u) ==
    i \in DOMAIN order_items /\ order_items[i].seller_id /= NULL_ID

\* db.query(OrderItem).filter(OrderItem.id == i, OrderItem.seller_id == seller.id).first()
SellerItemFound(i, u) ==
    i \in DOMAIN order_items /\ SqlEq(order_items[i].seller_id, u)

\* the order of item i belongs to customer u
CustomerOwnsItem(i, u) ==
    /\ order_items[i].order_id \in DOMAIN orders
    /\ orders[order_items[i].order_id].user_id = u

\* the orderings in which the items of the order of item i may be listed
SiblingListings(i) ==
    IF i \in DOMAIN order_items
    THEN Listings(ItemsOf(order_items[i].order_id, order_items))
    ELSE {<<>>}

(* ----------------------- fulfillment transitions ---------------------- *)
AcceptLegalFromAnyOpen == {"Pending", "Rejected", "Accepted"}
AcceptLegalFrom == {"Pending", "Rejected"}
RejectLegalFromAnyOpen == {"Pending", "Accepted", "Rejected"}
RejectLegalFrom == {"Pending", "Accepted"}

AcceptedItemsKeepingReason(i) ==
    [order_items EXCEPT ![i].status = "Accepted"]

\* order_items after a successful accept of item i
AcceptedItems(i) ==
    [order_items EXCEPT ![i].status = "Accepted", ![i].rejection_reason = NULL]

\* order_items after a successful reject of item i with request.reason
RejectedItems(i, reason) ==
    [order_items EXCEPT ![i].status = "Rejected", ![i].rejection_reason = reason]

\* PATCH /seller/orders/{i}/accept
accept_order_item_result(u, i, listing) ==
    IF seller_only(u) /= <<>>
    THEN Raise("accept_order_item", u, i, 403, seller_only(u))
    ELSE IF ~SellerItemFound(i, u)
    THEN Raise("accept_order_item", u, i, 403, <<"Order item not found or access denied">>)
    ELSE IF order_items[i].status \notin AcceptLegalFrom
    THEN Raise("accept_order_item", u, i, 400,
               <<"Cannot accept order item with status", order_items[i].status>>)
    ELSE Return("accept_order_item", u, i, cart_items,
                update_order_status_from_items(order_items[i].order_id, orders,
                                               AcceptedItems(i), listing),
                AcceptedItems(i))

accept_order_item(u, i) ==
    /\ \E listing \in SiblingListings(i) : Commit(accept_order_item_result(u, i, listing))
    /\ UNCHANGED <<users, addresses, products, variants, now, overrides, sessions,
                 issued, active_connections, admin_connections, seller_connections>>

\* PATCH /seller/orders/{i}/reject
reject_order_item_result(u, i, reason, listing) ==
    IF seller_only(u) /= <<>>
    THEN Raise("reject_order_item", u, i, 403, seller_only(u))
    ELSE IF ~SellerItemFound(i, u)
    THEN Raise("reject_order_item", u, i, 403, <<"Order item not found or access denied">>)
    ELSE IF order_items[i].status \notin RejectLegalFrom
    THEN Raise("reject_order_item", u, i, 400,
               <<"Cannot reject order item with status", order_items[i].status>>)
    ELSE Return("reject_order_item", u, i, cart_items,
                update_order_status_from_items(order_items[i].order_id, orders,
                                               RejectedItems(i, reason), listing),
                RejectedItems(i, reason))

reject_order_item(u, i, reason) ==
    /\ \E listing \in SiblingListings(i) : Commit(reject_order_item_result(u, i, reason, listing))
    /\ UNCHANGED <<users, addresses, products, variants, now, overrides, sessions,
                 issued, active_connections, admin_connections, seller_connections>>

(* --------------------------- admin overrides -------------------------- *)
OverrideStatusAllowed == {"Accepted", "Rejected", "Cancelled", "Shipped", "Delivered"}
OverrideReturnAllowed == {"None", "ReturnRequested", "ReturnAccepted", "ReturnRejected",
                          "ReturnInTransit", "ReturnReceived", "RefundProcessed"}
OverrideReturnStamped == {"ReturnAccepted", "ReturnRejected", "ReturnReceived", "RefundProcessed"}

\* "if request.reason:" - None and the empty string are both false
Truthy(str) == str /= NULL /\ str /= ""

OverriddenItemKeepingReason(i, status, reason) ==
    [order_items[i] EXCEPT
        !.status = status,
        !.rejection_reason = IF Truthy(reason) THEN reason ELSE @]

\* the row of item i after admin override-status (status, reason)
OverriddenItem(i, status, reason) ==
    [order_items[i] EXCEPT
        !.status = status,
        !.rejection_reason = IF Truthy(reason) THEN reason
                             ELSE IF status /= "Rejected" THEN NULL
                             ELSE @]

\* PATCH /admin/order-items/{i}/override-status
admin_override_order_item_status_result(u, i, status, reason) ==
    IF admin_only(u) /= <<>>
    THEN Raise("admin_override_order_item_status", u, i, 403, admin_only(u))
    ELSE IF status \notin OverrideStatusAllowed
    THEN Raise("admin_override_order_item_status", u, i, 400,
               <<"Status must be one of: Accepted, Rejected, Cancelled, Shipped, Delivered">>)
    ELSE IF i \notin DOMAIN order_items
    THEN Raise("admin_override_order_item_status", u, i, 404, <<"Order item not found">>)
    ELSE Return("admin_override_order_item_status", u, i, cart_items, orders,
                [order_items EXCEPT ![i] = OverriddenItem(i, status, reason)])

admin_override_order_item_status(u, i, status, reason) ==
    /\ overrides.status < MaxStatusOverrides
    /\ overrides' = [overrides EXCEPT !.status = @ + 1]
    /\ Commit(admin_override_order_item_status_result(u, i, status, reason))
    /\ UNCHANGED <<users, addresses, products, variants, now, sessions,
                 issued, active_connections, admin_connections, seller_connections>>

ReturnOverriddenItemClearingStamp(i, status, notes) ==
    [order_items[i] EXCEPT
        !.return_status = status,
        !.return_notes = IF Truthy(notes) THEN notes ELSE @,
        !.return_processed_at = IF status \in OverrideReturnStamped THEN now ELSE NULL_TIME]

\* the row of item i after admin override-return-status (status, notes)
ReturnOverriddenItem(i, status, notes) ==
    [order_items[i] EXCEPT
        !.return_status = status,
        !.return_notes = IF Truthy(notes) THEN notes ELSE @,
        !.return_processed_at = IF status \in OverrideReturnStamped THEN now ELSE @]

\* PATCH /admin/returns/{i}/override-status
admin_override_return_status_result(u, i, status, notes) ==
    IF admin_only(u) /= <<>>
    THEN Raise("admin_override_return_status", u, i, 403, admin_only(u))
    ELSE IF status \notin OverrideReturnAllowed
    THEN Raise("admin_override_return_status", u, i, 400, <<"Invalid return status">>)
    ELSE IF i \notin DOMAIN order_items
    THEN Raise("admin_override_return_status", u, i, 404, <<"Return item not found">>)
    ELSE Return("admin_override_return_status", u, i, cart_items, orders,
                [order_items EXCEPT ![i] = ReturnOverriddenItem(i, status, notes)])

admin_override_return_status(u, i, status, notes) ==
    /\ overrides.return_status < MaxReturnOverrides
    /\ overrides' = [overrides EXCEPT !.return_status = @ + 1]
    /\ Commit(admin_override_return_status_result(u, i, status, notes))
    /\ UNCHANGED <<users, addresses, products, variants, now, sessions,
                 issued, active_connections, admin_connections, seller_connections>>

(* ------------------------- customer returns --------------------------- *)
HasReturnRequestPending(item) == item.return_status = "ReturnRequested"

\* "if order_item.return_status and order_item.return_status != 'None'"
HasReturnRequest(item) == Truthy(item.return_status) /\ item.return_status /= "None"

\* the row of item i after a successful return request
ReturnRequestedItem(i, reason, notes) ==
    [order_items[i] EXCEPT
        !.return_status = "ReturnRequested",
        !.return_reason = reason,
        !.return_notes = notes,
        !.return_requested_at = now]

ReturnCancelledItemKeepingNotes(i) ==
    [order_items[i] EXCEPT
        !.return_status = "None",
        !.return_reason = NULL,
        !.return_requested_at = NULL_TIME]

\* the row of item i after a successful cancel of its return request
ReturnCancelledItem(i) ==
    [order_items[i] EXCEPT
        !.return_status = "None",
        !.return_reason = NULL,
        !.return_notes = NULL,
        !.return_requested_at = NULL_TIME]

\* POST /returns/request/{i}
request_return_result(u, i, reason, notes) ==
    IF customer_only(u) /= <<>>
    THEN Raise("request_return", u, i, 403, customer_only(u))
    ELSE IF i \notin DOMAIN order_items
    THEN Raise("request_return", u, i, 404, <<"Order item not found">>)
    ELSE IF ~CustomerOwnsItem(i, u)
    THEN Raise("request_return", u, i, 403, <<"Access denied">>)
    ELSE IF order_items[i].status /= "Delivered"
    THEN Raise("request_return", u, i, 400, <<"Only delivered items can be returned">>)
    ELSE IF HasReturnRequest(order_items[i])
    THEN Raise("request_return", u, i, 400, <<"Return already", order_items[i].return_status>>)
    ELSE IF ~order_items[i].is_return_eligible
    THEN Raise("request_return", u, i, 400, <<"This item is not eligible for return">>)
    ELSE Return("request_return", u, i, cart_items, orders,
                [order_items EXCEPT ![i] = ReturnRequestedItem(i, reason, notes)])

request_return(u, i, reason, notes) ==
    /\ Commit(request_return_result(u, i, reason, notes))
    /\ UNCHANGED <<users, addresses, products, variants, now, overrides, sessions,
                 issued, active_connections, admin_connections, seller_connections>>

\* PATCH /returns/cancel/{i}
cancel_return_result(u, i) ==
    IF customer_only(u) /= <<>>
    THEN Raise("cancel_return", u, i, 403, customer_only(u))
    ELSE IF i \notin DOMAIN order_items
    THEN Raise("cancel_return", u, i, 404, <<"Order item not found">>)
    ELSE IF ~CustomerOwnsItem(i, u)
    THEN Raise("cancel_return", u, i, 403, <<"Access denied">>)
    ELSE IF order_items[i].return_status /= "ReturnRequested"
    THEN Raise("cancel_return", u, i, 400, <<"Can only cancel return requests that are pending">>)
    ELSE Return("cancel_return", u, i, cart_items, orders,
                [order_items EXCEPT ![i] = ReturnCancelledItem(i)])

cancel_return(u, i) ==
    /\ Commit(cancel_return_result(u, i))
    /\ UNCHANGED <<users, addresses, products, variants, now, overrides, sessions,
                 issued, active_connections, admin_connections, seller_connections>>

(* -------------------------- seller returns ---------------------------- *)
ReturnDecisionLegalFrom == {"ReturnRequested"}
MarkReceivedLegalFromRequested == {"ReturnRequested", "ReturnAccepted", "ReturnInTransit"}
MarkReceivedLegalFrom == {"ReturnAccepted", "ReturnInTransit"}

ReturnAcceptedItemReturned(i) ==
    [order_items[i] EXCEPT !.return_status = "ReturnAccepted", !.return_processed_at = now,
                           !.status = "Returned"]

\* the row of item i after the seller accepted its return
ReturnAcceptedItem(i) ==
    [order_items[i] EXCEPT !.return_status = "ReturnAccepted", !.return_processed_at = now]

\* the row of item i after the seller rejected its return with request.notes
ReturnRejectedItem(i, notes) ==
    [order_items[i] EXCEPT !.return_status = "ReturnRejected",
                           !.return_notes = notes,
                           !.return_processed_at = now]

ReturnReceivedItemRefunded(i) ==
    [order_items[i] EXCEPT !.return_status = "RefundProcessed", !.return_processed_at = now]

\* the row of item i after the seller marked the returned item as received
ReturnReceivedItem(i) ==
    [order_items[i] EXCEPT !.return_status = "ReturnReceived", !.return_processed_at = now]

\* PATCH /seller/returns/{i}/accept
accept_return_result(u, i) ==
    IF seller_only(u) /= <<>>
    THEN Raise("accept_return", u, i, 403, seller_only(u))
    ELSE IF ~SellerItemFound(i, u)
    THEN Raise("accept_return", u, i, 404, <<"Return item not found or access denied">>)
    ELSE IF order_items[i].return_status \notin ReturnDecisionLegalFrom
    THEN Raise("accept_return", u, i, 400,
               <<"Cannot accept return with status", order_items[i].return_status>>)
    ELSE Return("accept_return", u, i, cart_items, orders,
                [order_items EXCEPT ![i] = ReturnAcceptedItem(i)])

accept_return(u, i) ==
    /\ Commit(accept_return_result(u, i))
    /\ UNCHANGED <<users, addresses, products, variants, now, overrides, sessions,
                 issued, active_connections, admin_connections, seller_connections>>

\* PATCH /seller/returns/{i}/reject
reject_return_result(u, i, notes) ==
    IF seller_only(u) /= <<>>
    THEN Raise("reject_return", u, i, 403, seller_only(u))
    ELSE IF ~SellerItemFound(i, u)
    THEN Raise("reject_return", u, i, 404, <<"Return item not found or access denied">>)
    ELSE IF order_items[i].return_status \notin ReturnDecisionLegalFrom
    THEN Raise("reject_return", u, i, 400,
               <<"Cannot reject return with status", order_items[i].return_status>>)
    ELSE Return("reject_return", u, i, cart_items, orders,
                [order_items EXCEPT ![i] = ReturnRejectedItem(i, notes)])

reject_return(u, i, notes) ==
    /\ Commit(reject_return_result(u, i, notes))
    /\ UNCHANGED <<users, addresses, products, variants, now, overrides, sessions,
                 issued, active_connections, admin_connections, seller_connections>>

\* PATCH /seller/returns/{i}/mark-received
mark_return_received_result(u, i) ==
    IF seller_only(u) /= <<>>
    THEN Raise("mark_return_received", u, i, 403, seller_only(u))
    ELSE IF ~SellerItemFound(i, u)
    THEN Raise("mark_return_received", u, i, 404, <<"Return item not found or access denied">>)
    ELSE IF order_items[i].return_status \notin MarkReceivedLegalFrom
    THEN Raise("mark_return_received", u, i, 400,
               <<"Cannot mark as received with status", order_items[i].return_status>>)
    ELSE Return("mark_return_received", u, i, cart_items, orders,
                [order_items EXCEPT ![i] = ReturnReceivedItem(i)])

mark_return_received(u, i) ==
    /\ Commit(mark_return_received_result(u, i))
    /\ UNCHANGED <<users, addresses, products, variants, now, overrides, sessions,
                 issued, active_connections, admin_connections, seller_connections>>

(* ------------------------------ catalog ------------------------------- *)
\* request bodies of the product updates: the price is the one column checkout reads
ProductUpdates == {[price |-> 20]}
\* request bodies of the variant updates (VariantUpdate, exclude_unset): the columns sent
VariantUpdates ==
    {[size |-> "L", color |-> "Blue", image_url |-> "/uploads/b.jpg", price |-> NULL_PRICE]}

CatalogRaise(op, caller, target, code, detail) ==
    [response |-> Resp(op, caller, target, code, detail),
     products |-> products, variants |-> variants,
     cart_items |-> cart_items, order_items |-> order_items]

CatalogReturn(op, caller, target, prods, vars_, carts, items) ==
    [response |-> Resp(op, caller, target, 200, <<>>),
     products |-> prods, variants |-> vars_, cart_items |-> carts, order_items |-> items]

CommitCatalog(result) ==
    /\ result.response.code = 200
    /\ response' = result.response
    /\ products' = result.products
    /\ variants' = result.variants
    /\ cart_items' = result.cart_items
    /\ order_items' = result.order_items
    /\ UNCHANGED <<users, addresses, orders, now, overrides, sessions,
                 issued, active_connections, admin_connections, seller_connections>>

\* "for key, value in data.items(): setattr(row, key, value)"
SetAttrs(row, data) == [c \in DOMAIN row |-> IF c \in DOMAIN data THEN data[c] ELSE row[c]]

Without(table, ids) == [k \in DOMAIN table \ ids |-> table[k]]

\* filter(ProductModel.id == product_id, ProductModel.seller_id == current_seller.id)
SellerProductFound(product_id, u) ==
    product_id \in DOMAIN products /\ SqlEq(products[product_id].seller_id, u)

ResubmittedProductKeepingStatus(row, data) == SetAttrs(row, data)

\* the product row after a seller update: the columns sent, and verification starts over
ResubmittedProduct(row, data) ==
    [SetAttrs(row, data) EXCEPT !.is_verified = FALSE, !.verification_status = "Pending"]

\* PATCH /seller/products/update/{product_id}
update_seller_product_result(u, product_id, data) ==
    IF seller_only(u) /= <<>>
    THEN CatalogRaise("update_seller_product", u, product_id, 403, seller_only(u))
    ELSE IF ~SellerProductFound(product_id, u)
    THEN CatalogRaise("update_seller_product", u, product_id, 404,
                      <<"Product not found or access denied">>)
    ELSE CatalogReturn("update_seller_product", u, product_id,
                       [products EXCEPT ![product_id] = ResubmittedProduct(@, data)],
                       variants, cart_items, order_items)

update_seller_product(u, product_id, data) ==
    CommitCatalog(update_seller_product_result(u, product_id, data))

\* PATCH /admin/products/{product_id}
update_admin_product_result(u, product_id, data) ==
    IF admin_only(u) /= <<>>
    THEN CatalogRaise("update_admin_product", u, product_id, 403, admin_only(u))
    ELSE IF product_id \notin DOMAIN products
    THEN CatalogRaise("update_admin_product", u, product_id, 404, <<"Product not found">>)
    ELSE CatalogReturn("update_admin_product", u, product_id,
                       [products EXCEPT ![product_id] = SetAttrs(@, data)],
                       variants, cart_items, order_items)

update_admin_product(u, product_id, data) ==
    CommitCatalog(update_admin_product_result(u, product_id, data))

\* PATCH /seller/variants/{variant_id}
update_product_variant_result(u, variant_id, data) ==
    IF seller_only(u) /= <<>>
    THEN CatalogRaise("update_product_variant", u, variant_id, 403, seller_only(u))
    ELSE IF variant_id \notin DOMAIN variants
    THEN CatalogRaise("update_product_variant", u, variant_id, 404, <<"Variant not found">>)
    ELSE IF ~SellerProductFound(variants[variant_id].product_id, u)
    THEN CatalogRaise("update_product_variant", u, variant_id, 404,
                      <<"Variant not found or access denied">>)
    ELSE CatalogReturn("update_product_variant", u, variant_id, products,
                       [variants EXCEPT ![variant_id] = SetAttrs(@, data)],
                       cart_items, order_items)

update_product_variant(u, variant_id, data) ==
    CommitCatalog(update_product_variant_result(u, variant_id, data))

\* PATCH /admin/products/{product_id}/variant/{variant_id}
update_admin_product_variant_result(u, product_id, variant_id, data) ==
    IF admin_only(u) /= <<>>
    THEN CatalogRaise("update_admin_product_variant", u, variant_id, 403, admin_only(u))
    ELSE IF product_id \notin DOMAIN products
    THEN CatalogRaise("update_admin_product_variant", u, variant_id, 404, <<"Product not found">>)
    ELSE IF variant_id \notin VariantsOf(product_id)
    THEN CatalogRaise("update_admin_product_variant", u, variant_id, 404, <<"Variant not found">>)
    ELSE CatalogReturn("update_admin_product_variant", u, variant_id, products,
                       [variants EXCEPT ![variant_id] = SetAttrs(@, data)],
                       cart_items, order_items)

update_admin_product_variant(u, product_id, variant_id, data) ==
    CommitCatalog(update_admin_product_variant_result(u, product_id, variant_id, data))

\* DELETE /seller/variants/{variant_id}: the variant row is deleted and nothing else
delete_product_variant_result(u, variant_id) ==
    IF seller_only(u) /= <<>>
    THEN CatalogRaise("delete_product_variant", u, variant_id, 403, seller_only(u))
    ELSE IF variant_id \notin DOMAIN variants
    THEN CatalogRaise("delete_product_variant", u, variant_id, 404, <<"Variant not found">>)
    ELSE IF ~SellerProductFound(variants[variant_id].product_id, u)
    THEN CatalogRaise("delete_product_variant", u, variant_id, 404,
                      <<"Variant not found or access denied">>)
    ELSE CatalogReturn("delete_product_variant", u, variant_id, products,
                       Without(variants, {variant_id}), cart_items, order_items)

delete_product_variant(u, variant_id) ==
    CommitCatalog(delete_product_variant_result(u, variant_id))

ItemsWithoutVariantOrSnapshot(variant_id) ==
    [i \in DOMAIN order_items |->
        IF SqlEq(order_items[i].variant_id, variant_id)
        THEN [order_items[i] EXCEPT !.variant_id = NULL_ID, !.variant_size = NULL]
        ELSE order_items[i]]

\* "order_item.variant_id = None" for the items with OrderItem.variant_id == variant_id
ItemsWithoutVariant(variant_id) ==
    [i \in DOMAIN order_items |->
        IF SqlEq(order_items[i].variant_id, variant_id)
        THEN [order_items[i] EXCEPT !.variant_id = NULL_ID]
        ELSE order_items[i]]

\* DELETE /admin/products/{product_id}/variant/{variant_id}
delete_admin_product_variant_result(u, product_id, variant_id) ==
    IF admin_only(u) /= <<>>
    THEN CatalogRaise("delete_admin_product_variant", u, variant_id, 403, admin_only(u))
    ELSE IF product_id \notin DOMAIN products
    THEN CatalogRaise("delete_admin_product_variant", u, variant_id, 404, <<"Product not found">>)
    ELSE IF variant_id \notin VariantsOf(product_id)
    THEN CatalogRaise("delete_admin_product_variant", u, variant_id, 404, <<"Variant not found">>)
    ELSE CatalogReturn("delete_admin_product_variant", u, variant_id, products,
                       Without(variants, {variant_id}),
                       {c \in cart_items : ~SqlEq(c.variant_id, variant_id)},
                       ItemsWithoutVariant(variant_id))

delete_admin_product_variant(u, product_id, variant_id) ==
    CommitCatalog(delete_admin_product_variant_result(u, product_id, variant_id))

\* db.query(CartItem).filter(CartItem.product_id == product_id).delete()
CartWithoutProduct(product_id) == {c \in cart_items : c.product_id /= product_id}

\* DELETE /products/{product_id}, which takes no token: db.delete(product) cascades to
\* the product's variants
delete_product_result(product_id) ==
    IF product_id \notin DOMAIN products
    THEN CatalogRaise("delete_product", 0, product_id, 404, <<"Product not found">>)
    ELSE CatalogReturn("delete_product", 0, product_id,
                       Without(products, {product_id}),
                       Without(variants, VariantsOf(product_id)),
                       CartWithoutProduct(product_id), order_items)

delete_product(product_id) ==
    CommitCatalog(delete_product_result(product_id))

\* DELETE /seller/products/delete/{product_id}
delete_seller_product_result(u, product_id) ==
    IF seller_only(u) /= <<>>
    THEN CatalogRaise("delete_seller_product", u, product_id, 403, seller_only(u))
    ELSE IF ~SellerProductFound(product_id, u)
    THEN CatalogRaise("delete_seller_product", u, product_id, 404,
                      <<"Product not found or access denied">>)
    ELSE CatalogReturn("delete_seller_product", u, product_id,
                       Without(products, {product_id}),
                       Without(variants, VariantsOf(product_id)),
                       CartWithoutProduct(product_id), order_items)

delete_seller_product(u, product_id) ==
    CommitCatalog(delete_seller_product_result(u, product_id))

\* "order_item.product_id = None" for the items with OrderItem.product_id == product_id
ItemsWithoutProduct(product_id) ==
    [i \in DOMAIN order_items |->
        IF SqlEq(order_items[i].product_id, product_id)
        THEN [order_items[i] EXCEPT !.product_id = NULL_ID]
        ELSE order_items[i]]

\* DELETE /admin/products/{product_id}
delete_admin_product_result(u, product_id) ==
    IF admin_only(u) /= <<>>
    THEN CatalogRaise("delete_admin_product", u, product_id, 403, admin_only(u))
    ELSE IF product_id \notin DOMAIN products
    THEN CatalogRaise("delete_admin_product", u, product_id, 404, <<"Product not found">>)
    ELSE CatalogReturn("delete_admin_product", u, product_id,
                       Without(products, {product_id}),
                       Without(variants, VariantsOf(product_id)),
                       CartWithoutProduct(product_id),
                       ItemsWithoutProduct(product_id))

delete_admin_product(u, product_id) ==
    CommitCatalog(delete_admin_product_result(u, product_id))

(* ------------------------------ accounts ------------------------------ *)
\* the clock counts periods of ten minutes: timedelta(minutes=10)
OtpLifetime == 1

\* the e-mail addresses a request can name: those of the initial users and a fresh one
Emails == 1..(Max(Admins \cup Customers \cup Sellers) + 1)

\* db.query(User).filter(User.email == email)
UserByEmail(email) == {u \in DOMAIN users : users[u].email = email}

UserRaise(op, target, code, detail) ==
    [response |-> Resp(op, NULL_ID, target, code, detail), users |-> users]

UserReturn(op, caller, target, code, rows) ==
    [response |-> Resp(op, caller, target, code, <<>>), users |-> rows]

\* a request on the users table that committed
CommitUsers(result) ==
    /\ response' = result.response
    /\ users' = result.users
    /\ UNCHANGED <<addresses, products, variants, cart_items, orders, order_items, now, overrides, sessions,
                 issued, active_connections, admin_connections, seller_connections>>

\* the row register-seller inserts
NewSeller(email, otp) ==
    [email       |-> email,
     role        |-> "seller",
     is_admin    |-> FALSE,
     is_active   |-> FALSE,
     is_approved |-> FALSE,
     has_address |-> FALSE,
     otp         |-> otp,
     otp_expiry  |-> now + OtpLifetime,
     hashed_password     |-> hash_password(InitialPassword),
     reset_token         |-> NULL_TOKEN,
     reset_token_expires |-> NULL_TIME]

\* POST /users/register-seller; username and e-mail are one identity here
register_seller_result(email, otp) ==
    IF UserByEmail(email) /= {}
    THEN UserRaise("register_seller", NULL_ID, 400, <<"Email already registered">>)
    ELSE UserReturn("register_seller", NULL_ID, NextId(users), 200,
                    users @@ (NextId(users) :> NewSeller(email, otp)))

register_seller(email, otp) ==
    /\ register_seller_result(email, otp).response.code = 200
    /\ CommitUsers(register_seller_result(email, otp))

\* the row of user u after a successful verify-otp
VerifiedUser(u) ==
    [users[u] EXCEPT
        !.is_active = TRUE,
        !.otp = NULL,
        !.otp_expiry = NULL_TIME,
        !.is_approved = IF users[u].role = "customer" THEN TRUE ELSE @]

\* POST /verify-otp
verify_otp_result(email, otp) ==
    IF UserByEmail(email) = {}
    THEN UserRaise("verify_otp", NULL_ID, 404, <<"User not found">>)
    ELSE LET u == CHOOSE x \in UserByEmail(email) : TRUE IN
         IF ~Truthy(users[u].otp)
         THEN UserRaise("verify_otp", u, 400, <<"No OTP found. Please request a new OTP.">>)
         ELSE IF users[u].otp /= otp
         THEN UserRaise("verify_otp", u, 400, <<"Invalid OTP">>)
         ELSE IF users[u].otp_expiry < now
         THEN UserRaise("verify_otp", u, 400, <<"OTP expired. Please request a new OTP.">>)
         ELSE UserReturn("verify_otp", NULL_ID, u, 200, [users EXCEPT ![u] = VerifiedUser(u)])

verify_otp(email, otp) ==
    /\ verify_otp_result(email, otp).response.code = 200
    /\ CommitUsers(verify_otp_result(email, otp))

\* POST /resend-otp: the new OTP is committed before the mail is sent, and a failure
\* of the mail server is answered 500
resend_otp_result(email, otp, sent) ==
    IF UserByEmail(email) = {}
    THEN UserRaise("resend_otp", NULL_ID, 404, <<"User not found">>)
    ELSE LET u == CHOOSE x \in UserByEmail(email) : TRUE IN
         IF users[u].is_active
         THEN UserRaise("resend_otp", u, 400, <<"Email is already verified and account is active">>)
         ELSE UserReturn("resend_otp", NULL_ID, u, IF sent THEN 200 ELSE 500,
                         [users EXCEPT ![u].otp = otp, ![u].otp_expiry = now + OtpLifetime])

resend_otp(email, otp, sent) ==
    /\ resend_otp_result(email, otp, sent).response.code \in {200, 500}
    /\ CommitUsers(resend_otp_result(email, otp, sent))

\* db.query(User).filter(User.id == user_id, User.role == "seller").first()
SellerFound(user_id) == user_id \in DOMAIN users /\ users[user_id].role = "seller"

\* POST /admin/sellers/approve/{user_id}
approve_seller_result(u, user_id) ==
    IF admin_only(u) /= <<>>
    THEN UserRaise("approve_seller", user_id, 403, admin_only(u))
    ELSE IF ~SellerFound(user_id)
    THEN UserRaise("approve_seller", user_id, 404, <<"Seller not found">>)
    ELSE IF ~users[user_id].is_active
    THEN UserRaise("approve_seller", user_id, 400, <<"Seller must verify email first">>)
    ELSE UserReturn("approve_seller", u, user_id, 200, [users EXCEPT ![user_id].is_approved = TRUE])

approve_seller(u, user_id) ==
    /\ approve_seller_result(u, user_id).response.code = 200
    /\ CommitUsers(approve_seller_result(u, user_id))

\* POST /admin/sellers/reject/{user_id}
reject_seller_result(u, user_id) ==
    IF admin_only(u) /= <<>>
    THEN UserRaise("reject_seller", user_id, 403, admin_only(u))
    ELSE IF ~SellerFound(user_id)
    THEN UserRaise("reject_seller", user_id, 404, <<"Seller not found">>)
    ELSE UserReturn("reject_seller", u, user_id, 200, [users EXCEPT ![user_id].is_approved = FALSE])

reject_seller(u, user_id) ==
    /\ reject_seller_result(u, user_id).response.code = 200
    /\ CommitUsers(reject_seller_result(u, user_id))

BlockedSellerKeepingApproval(user_id) ==
    [users[user_id] EXCEPT !.is_active = FALSE]

\* the row of a seller after block
BlockedSeller(user_id) ==
    [users[user_id] EXCEPT !.is_active = FALSE, !.is_approved = FALSE]

\* POST /admin/sellers/block/{user_id}
block_seller_result(u, user_id) ==
    IF admin_only(u) /= <<>>
    THEN UserRaise("block_seller", user_id, 403, admin_only(u))
    ELSE IF ~SellerFound(user_id)
    THEN UserRaise("block_seller", user_id, 404, <<"Seller not found">>)
    ELSE UserReturn("block_seller", u, user_id, 200, [users EXCEPT ![user_id] = BlockedSeller(user_id)])

block_seller(u, user_id) ==
    /\ block_seller_result(u, user_id).response.code = 200
    /\ CommitUsers(block_seller_result(u, user_id))

(* ----------------------- product verification ------------------------- *)
\* request bodies of the product creations: the price
ProductCreates == {[price |-> 10]}

\* POST /seller/products/create
create_seller_product_result(u, data) ==
    IF seller_only(u) /= <<>>
    THEN CatalogRaise("create_seller_product", u, NULL_ID, 403, seller_only(u))
    ELSE CatalogReturn("create_seller_product", u, NextId(products),
                       products @@ (NextId(products) :>
                                        [seller_id           |-> u,
                                         price               |-> data.price,
                                         is_verified         |-> FALSE,
                                         verification_status |-> "Pending"]),
                       variants, cart_items, order_items)

create_seller_product(u, data) ==
    /\ NextId(products) <= MaxProducts
    /\ CommitCatalog(create_seller_product_result(u, data))

\* PATCH /admin/products/{product_id}/approve
approve_product_result(u, product_id) ==
    IF admin_only(u) /= <<>>
    THEN CatalogRaise("approve_product", u, product_id, 403, admin_only(u))
    ELSE IF product_id \notin DOMAIN products
    THEN CatalogRaise("approve_product", u, product_id, 404, <<"Product not found">>)
    ELSE CatalogReturn("approve_product", u, product_id,
                       [products EXCEPT ![product_id].verification_status = "Approved",
                                        ![product_id].is_verified = TRUE],
                       variants, cart_items, order_items)

approve_product(u, product_id) == CommitCatalog(approve_product_result(u, product_id))

\* PATCH /admin/products/{product_id}/reject
reject_product_result(u, product_id) ==
    IF admin_only(u) /= <<>>
    THEN CatalogRaise("reject_product", u, product_id, 403, admin_only(u))
    ELSE IF product_id \notin DOMAIN products
    THEN CatalogRaise("reject_product", u, product_id, 404, <<"Product not found">>)
    ELSE CatalogReturn("reject_product", u, product_id,
                       [products EXCEPT ![product_id].verification_status = "Rejected",
                                        ![product_id].is_verified = FALSE],
                       variants, cart_items, order_items)

reject_product(u, product_id) == CommitCatalog(reject_product_result(u, product_id))

\* POST /admin/products/verify/{product_id}
verify_product_legacy_result(u, product_id) ==
    IF admin_only(u) /= <<>>
    THEN CatalogRaise("verify_product_legacy", u, product_id, 403, admin_only(u))
    ELSE IF product_id \notin DOMAIN products
    THEN CatalogRaise("verify_product_legacy", u, product_id, 404, <<"Product not found">>)
    ELSE CatalogReturn("verify_product_legacy", u, product_id,
                       [products EXCEPT ![product_id].verification_status = "Approved",
                                        ![product_id].is_verified = TRUE],
                       variants, cart_items, order_items)

verify_product_legacy(u, product_id) ==
    CommitCatalog(verify_product_legacy_result(u, product_id))

\* the rows that pass filter(ProductModel.verification_status == "Approved")
Approved == {p \in DOMAIN products : products[p].verification_status = "Approved"}

\* GET /products, GET /products/paginated and GET /products/search without further
\* filters, and GET /products/{product_id}: the ids of the products returned
get_products == Approved
get_products_paginated == Approved
search_products == Approved
get_product(product_id) == {product_id} \cap Approved

(* -------------------------- account deletion -------------------------- *)
PurgeRaise(op, caller, target, code, detail) ==
    [response |-> Resp(op, caller, target, code, detail),
     users |-> users, addresses |-> addresses, products |-> products,
     cart_items |-> cart_items, orders |-> orders, order_items |-> order_items]

PurgeReturn(op, caller, target, tables) ==
    [response |-> Resp(op, caller, target, 200, <<>>),
     users |-> tables.users, addresses |-> tables.addresses, products |-> tables.products,
     cart_items |-> tables.cart_items, orders |-> tables.orders,
     order_items |-> tables.order_items]

CommitPurge(result) ==
    /\ result.response.code = 200
    /\ response' = result.response
    /\ users' = result.users
    /\ addresses' = result.addresses
    /\ products' = result.products
    /\ cart_items' = result.cart_items
    /\ orders' = result.orders
    /\ order_items' = result.order_items
    /\ UNCHANGED <<variants, now, overrides, sessions,
                 issued, active_connections, admin_connections, seller_connections>>

\* db.query(ProductModel).filter(ProductModel.seller_id == user_id)
ProductsOfSeller(user_id) == {p \in DOMAIN products : SqlEq(products[p].seller_id, user_id)}

OrdersOfUser(user_id) == {o \in DOMAIN orders : SqlEq(orders[o].user_id, user_id)}

\* the tables after DELETE /admin/users/{user_id}: the bulk deletes in the order of the
\* handler, then db.delete(user)
TablesWithoutUser(user_id) ==
    LET own_orders == OrdersOfUser(user_id)
        sold       == IF users[user_id].role = "seller" THEN ProductsOfSeller(user_id) ELSE {}
        kept       == Without(products, sold)
    IN  [users       |-> Without(users, {user_id}),
         addresses   |-> {a \in addresses : a.user_id /= user_id},
         \* User.products has no delete cascade: the rows left lose their seller_id
         products    |-> [p \in DOMAIN kept |->
                            IF SqlEq(kept[p].seller_id, user_id)
                            THEN [kept[p] EXCEPT !.seller_id = NULL_ID] ELSE kept[p]],
         cart_items  |-> {c \in cart_items : c.user_id /= user_id /\ c.product_id \notin sold},
         orders      |-> Without(orders, own_orders),
         order_items |-> Without(order_items,
                                 {i \in DOMAIN order_items :
                                     \/ order_items[i].order_id \in own_orders
                                     \/ order_items[i].product_id \in sold})]

\* DELETE /admin/users/{user_id}
delete_user_result(u, user_id) ==
    IF admin_only(u) /= <<>>
    THEN PurgeRaise("delete_user", u, user_id, 403, admin_only(u))
    ELSE IF user_id = u
    THEN PurgeRaise("delete_user", u, user_id, 400, <<"You cannot delete your own account">>)
    ELSE IF user_id \notin DOMAIN users
    THEN PurgeRaise("delete_user", u, user_id, 404, <<"User not found">>)
    ELSE PurgeReturn("delete_user", u, user_id, TablesWithoutUser(user_id))

delete_user(u, user_id) == CommitPurge(delete_user_result(u, user_id))

\* the tables after DELETE /admin/sellers/{user_id}: the seller's products are deleted in
\* bulk, which leaves their variants, cart lines and order items; db.delete(seller) takes
\* the seller's cart and addresses along and nulls user_id on the seller's own orders
TablesWithoutSeller(user_id) ==
    [users       |-> Without(users, {user_id}),
     addresses   |-> {a \in addresses : a.user_id /= user_id},
     products    |-> Without(products, ProductsOfSeller(user_id)),
     cart_items  |-> {c \in cart_items : c.user_id /= user_id},
     orders      |-> [o \in DOMAIN orders |->
                        IF SqlEq(orders[o].user_id, user_id)
                        THEN [orders[o] EXCEPT !.user_id = NULL_ID] ELSE orders[o]],
     order_items |-> order_items]

\* DELETE /admin/sellers/{user_id}
delete_seller_result(u, user_id) ==
    IF admin_only(u) /= <<>>
    THEN PurgeRaise("delete_seller", u, user_id, 403, admin_only(u))
    ELSE IF ~SellerFound(user_id)
    THEN PurgeRaise("delete_seller", u, user_id, 404, <<"Seller not found">>)
    ELSE PurgeReturn("delete_seller", u, user_id, TablesWithoutSeller(user_id))

delete_seller(u, user_id) == CommitPurge(delete_seller_result(u, user_id))

(* ----------------------------- addresses ------------------------------ *)
\* what an address handler does with a request: the response it returns and the users
\* and addresses tables it leaves behind
AddressRaise(op, caller, target, code, detail) ==
    [response |-> Resp(op, caller, target, code, detail),
     users |-> users, addresses |-> addresses]

AddressReturn(op, caller, target, accounts, rows) ==
    [response |-> Resp(op, caller, target, 200, <<>>),
     users |-> accounts, addresses |-> rows]

\* an address request that committed
CommitAddresses(result) ==
    /\ result.response.code = 200
    /\ response' = result.response
    /\ users' = result.users
    /\ addresses' = result.addresses
    /\ UNCHANGED <<products, variants, cart_items, orders, order_items, now, overrides, sessions,
                 issued, active_connections, admin_connections, seller_connections>>

AddressesOf(u) == {a \in addresses : a.user_id = u}

\* the id SQLite gives the next row of addresses
NextAddressId == IF addresses = {} THEN 1 ELSE Max({a.id : a \in addresses}) + 1

\* the tags a request body may carry
Tags == {"home", "office"}

\* POST /profile/addresses: the first address of a user is the default one
create_address_result(u, tag) ==
    IF u \notin DOMAIN users
    THEN AddressRaise("create_address", u, NULL_ID, 404, <<"User not found">>)
    ELSE LET is_first_address == Cardinality(AddressesOf(u)) = 0 IN
         AddressReturn("create_address", u, NextAddressId,
             IF is_first_address THEN [users EXCEPT ![u].has_address = TRUE] ELSE users,
             addresses \cup {[id |-> NextAddressId, user_id |-> u,
                              is_default |-> is_first_address, tag |-> tag]})

create_address(u, tag) ==
    /\ NextAddressId <= MaxAddresses
    /\ CommitAddresses(create_address_result(u, tag))

\* the caller's address with this id, as the set of matching rows
OwnAddress(u, address_id) == {a \in addresses : a.id = address_id /\ a.user_id = u}

\* PUT /profile/addresses/{address_id}: the body has no is_default field
update_address_result(u, address_id, tag) ==
    IF u \notin DOMAIN users
    THEN AddressRaise("update_address", u, address_id, 404, <<"User not found">>)
    ELSE IF OwnAddress(u, address_id) = {}
    THEN AddressRaise("update_address", u, address_id, 404, <<"Address not found">>)
    ELSE AddressReturn("update_address", u, address_id, users,
             {IF a \in OwnAddress(u, address_id) THEN [a EXCEPT !.tag = tag] ELSE a
                 : a \in addresses})

update_address(u, address_id, tag) == CommitAddresses(update_address_result(u, address_id, tag))

\* POST /profile/addresses/{address_id}/set-default: the bulk UPDATE clears the flag on
\* every default row of the caller, then the flag is set on the named row
set_default_address_result(u, address_id) ==
    IF u \notin DOMAIN users
    THEN AddressRaise("set_default_address", u, address_id, 404, <<"User not found">>)
    ELSE IF OwnAddress(u, address_id) = {}
    THEN AddressRaise("set_default_address", u, address_id, 404, <<"Address not found">>)
    ELSE AddressReturn("set_default_address", u, address_id, users,
             {IF a.user_id = u THEN [a EXCEPT !.is_default = (a.id = address_id)] ELSE a
                 : a \in addresses})

set_default_address(u, address_id) == CommitAddresses(set_default_address_result(u, address_id))

\* the row ".first()" returns for the caller's addresses: SQLite lists them by rowid.
\* The session does not autoflush, so the row being deleted is still in the table when
\* delete_address looks for the next address.
FirstAddressOf(u) == CHOOSE a \in AddressesOf(u) : \A b \in AddressesOf(u) : a.id <= b.id

\* the addresses table after the caller's address has been deleted
AddressesAfterDelete(u, address_id) ==
    LET address      == CHOOSE a \in OwnAddress(u, address_id) : TRUE
        next_address == FirstAddressOf(u)
    IN  IF address.is_default
        THEN {IF a = next_address THEN [a EXCEPT !.is_default = TRUE] ELSE a
                 : a \in addresses} \ {address}
        ELSE addresses \ {address}

\* DELETE /profile/addresses/{address_id}: next_address is never missing, since the
\* query still finds the address itself, so has_address is never cleared
delete_address_result(u, address_id) ==
    IF u \notin DOMAIN users
    THEN AddressRaise("delete_address", u, address_id, 404, <<"User not found">>)
    ELSE IF OwnAddress(u, address_id) = {}
    THEN AddressRaise("delete_address", u, address_id, 404, <<"Address not found">>)
    ELSE AddressReturn("delete_address", u, address_id, users,
                       AddressesAfterDelete(u, address_id))

delete_address(u, address_id) == CommitAddresses(delete_address_result(u, address_id))

(* -------------------------- password reset --------------------------- *)
\* RESET_TOKEN_EXPIRY_MINUTES, fifteen minutes, is one step of the clock here, and
\* RATE_LIMIT_SECONDS, sixty seconds, are over by the next step
RESET_TOKEN_EXPIRY == 1
RATE_LIMIT == 1

\* what a password-reset handler does with a request: the response it returns, the
\* users table it leaves behind and the tokens issued so far
ResetRaise(op, target, token, code, detail, accounts) ==
    [response |-> Resp(op, target, token, code, detail), users |-> accounts, issued |-> issued]

ResetReturn(op, target, token, accounts, tokens) ==
    [response |-> Resp(op, target, token, 200, <<>>), users |-> accounts, issued |-> tokens]

\* a password-reset request that committed
CommitReset(result) ==
    /\ response' = result.response
    /\ users' = result.users
    /\ issued' = result.issued
    /\ UNCHANGED <<addresses, products, variants, cart_items, orders, order_items, now, overrides,
                 sessions, active_connections, admin_connections, seller_connections>>

\* generate_reset_token(): 48 random bytes, a value that has not been returned before
generate_reset_token == Cardinality(issued) + 1

\* password_service.check_rate_limit: is_allowed
check_rate_limit(email) ==
    IF UserByEmail(email) = {}
    THEN TRUE
    ELSE LET user == users[CHOOSE x \in UserByEmail(email) : TRUE] IN
         IF user.reset_token_expires = NULL_TIME
         THEN TRUE
         ELSE LET token_created_at == user.reset_token_expires - RESET_TOKEN_EXPIRY
              IN  ~(now - token_created_at < RATE_LIMIT)

\* password_service.create_reset_token: the users table after it
create_reset_token(u, token) ==
    [users EXCEPT ![u].reset_token = token,
                  ![u].reset_token_expires = now + RESET_TOKEN_EXPIRY]

\* POST /auth/forgot-password: the answer is the same whether or not a token was made
\* and whether or not the mail could be sent
forgot_password_result(email) ==
    IF ~check_rate_limit(email)
    THEN ResetReturn("forgot_password", NULL_ID, NULL_TOKEN, users, issued)
    ELSE IF UserByEmail(email) = {}
    THEN ResetReturn("forgot_password", NULL_ID, NULL_TOKEN, users, issued)
    ELSE LET u == CHOOSE x \in UserByEmail(email) : TRUE
             token == generate_reset_token
         IN  ResetReturn("forgot_password", u, token, create_reset_token(u, token),
                         issued \cup {[user_id |-> u, token |-> token]})

forgot_password(email) ==
    /\ Cardinality(issued) < MaxTokens
    /\ CommitReset(forgot_password_result(email))

validate_reset_tokenIgnoringExpiry(email, token) ==
    IF UserByEmail(email) = {}
    THEN [user |-> NULL_ID, users |-> users]
    ELSE LET u == CHOOSE x \in UserByEmail(email) : TRUE IN
         IF users[u].reset_token = NULL_TOKEN \/ users[u].reset_token_expires = NULL_TIME
         THEN [user |-> NULL_ID, users |-> users]
         ELSE IF users[u].reset_token /= token
         THEN [user |-> NULL_ID, users |-> users]
         ELSE [user |-> u, users |-> users]

\* password_service.validate_reset_token: the user found (NULL_ID for None) and the users
\* table it leaves behind, an expired token being cleared and committed
validate_reset_token(email, token) ==
    IF UserByEmail(email) = {}
    THEN [user |-> NULL_ID, users |-> users]
    ELSE LET u == CHOOSE x \in UserByEmail(email) : TRUE IN
         IF users[u].reset_token = NULL_TOKEN \/ users[u].reset_token_expires = NULL_TIME
         THEN [user |-> NULL_ID, users |-> users]
         ELSE IF users[u].reset_token /= token
         THEN [user |-> NULL_ID, users |-> users]
         ELSE IF now > users[u].reset_token_expires
         THEN [user |-> NULL_ID,
               users |-> [users EXCEPT ![u].reset_token = NULL_TOKEN,
                                       ![u].reset_token_expires = NULL_TIME]]
         ELSE [user |-> u, users |-> users]

\* what a reset request presents: six digits are taken for an OTP, anything else for a token
Credentials ==
    {[is_otp |-> TRUE, otp |-> o, token |-> NULL_TOKEN] : o \in Otps}
    \cup {[is_otp |-> FALSE, otp |-> NULL, token |-> t] : t \in 1..MaxTokens}

\* the new passwords of a request; validate_password_strength refuses the second
Passwords == {InitialPassword, "weak", "Another-Passw0rd"}
validate_password_strength(password) == password /= "weak"

\* POST /auth/reset-password
reset_password_result(email, otp_or_token, new_password) ==
    IF ~validate_password_strength(new_password)
    THEN ResetRaise("reset_password", NULL_ID, otp_or_token.token, 400,
                    <<"Password must be at least 10 characters long">>, users)
    ELSE
    LET found == IF otp_or_token.is_otp
                 THEN [user |-> IF UserByEmail(email) = {} THEN NULL_ID
                                ELSE CHOOSE x \in UserByEmail(email) : TRUE,
                       users |-> users]
                 ELSE validate_reset_token(email, otp_or_token.token)
        u == found.user
    IN
    IF otp_or_token.is_otp /\ u = NULL_ID
    THEN ResetRaise("reset_password", NULL_ID, NULL_TOKEN, 404, <<"User not found">>, users)
    ELSE IF otp_or_token.is_otp /\ (~Truthy(users[u].otp) \/ users[u].otp /= otp_or_token.otp)
    THEN ResetRaise("reset_password", u, NULL_TOKEN, 400,
                    <<"Invalid OTP. Please request a new password reset.">>, users)
    ELSE IF otp_or_token.is_otp /\ (users[u].otp_expiry = NULL_TIME \/ users[u].otp_expiry < now)
    THEN ResetRaise("reset_password", u, NULL_TOKEN, 400,
                    <<"OTP expired. Please request a new password reset.">>, users)
    ELSE IF ~otp_or_token.is_otp /\ u = NULL_ID
    THEN ResetRaise("reset_password", NULL_ID, otp_or_token.token, 400,
                    <<"Invalid or expired reset token. Please request a new password reset.">>,
                    found.users)
    ELSE IF verify_password(new_password, users[u].hashed_password)
    THEN ResetRaise("reset_password", u, otp_or_token.token, 400,
                    <<"New password cannot be from your previous passwords">>, users)
    ELSE ResetReturn("reset_password", u, otp_or_token.token,
             IF otp_or_token.is_otp
             THEN [users EXCEPT ![u].hashed_password = hash_password(new_password),
                                ![u].otp = NULL,
                                ![u].otp_expiry = NULL_TIME]
             ELSE [users EXCEPT ![u].hashed_password = hash_password(new_password),
                                ![u].reset_token = NULL_TOKEN,
                                ![u].reset_token_expires = NULL_TIME],
             issued)

\* a refused request leaves a trace only when validate_reset_token cleared an expired token
reset_password(email, otp_or_token, new_password) ==
    /\ \/ reset_password_result(email, otp_or_token, new_password).response.code = 200
       \/ reset_password_result(email, otp_or_token, new_password).users /= users
    /\ CommitReset(reset_password_result(email, otp_or_token, new_password))

(* ------------------------- websocket manager -------------------------- *)
\* the WebSocket objects and the seller ids a caller may pass
Sockets == {"ws1", "ws2"}
SellerIds == Sellers

\* "websocket in connections"
In(websocket, connections) == \E k \in DOMAIN connections : connections[k] = websocket

\* list.remove(websocket): the first occurrence goes
Remove(connections, websocket) ==
    LET k == CHOOSE i \in DOMAIN connections :
                 /\ connections[i] = websocket
                 /\ \A j \in 1..(i - 1) : connections[j] /= websocket
    IN  SubSeq(connections, 1, k - 1) \o SubSeq(connections, k + 1, Len(connections))

\* the steps of the manager leave the tables alone
ManagerStep ==
    UNCHANGED <<users, addresses, products, variants, cart_items, orders, order_items, now, overrides,
                response, sessions, issued>>

\* WebSocketManager.connect, websocket.accept() having returned
connect(websocket) ==
    /\ Len(active_connections) < MaxConnections
    /\ active_connections' = Append(active_connections, websocket)
    /\ UNCHANGED <<admin_connections, seller_connections>>
    /\ ManagerStep

\* seller_connections after disconnect: the socket leaves every list that holds it, and
\* a list left empty is deleted with its key
SellersWithout(websocket) ==
    LET left(seller_id) == IF In(websocket, seller_connections[seller_id])
                           THEN Remove(seller_connections[seller_id], websocket)
                           ELSE seller_connections[seller_id]
        kept == {seller_id \in DOMAIN seller_connections :
                    ~In(websocket, seller_connections[seller_id]) \/ left(seller_id) /= <<>>}
    IN  [seller_id \in kept |-> left(seller_id)]

\* WebSocketManager.disconnect
disconnect(websocket) ==
    /\ active_connections' = IF In(websocket, active_connections)
                             THEN Remove(active_connections, websocket)
                             ELSE active_connections
    /\ admin_connections' = IF In(websocket, admin_connections)
                            THEN Remove(admin_connections, websocket)
                            ELSE admin_connections
    /\ seller_connections' = SellersWithout(websocket)
    /\ ManagerStep

\* WebSocketManager.connect_admin
connect_admin(websocket) ==
    /\ Len(active_connections) < MaxConnections
    /\ admin_connections' = IF ~In(websocket, admin_connections)
                            THEN Append(admin_connections, websocket)
                            ELSE admin_connections
    /\ active_connections' = IF ~In(websocket, active_connections)
                             THEN Append(active_connections, websocket)
                             ELSE active_connections
    /\ UNCHANGED seller_connections
    /\ ManagerStep

\* WebSocketManager.connect_seller
connect_seller(websocket, seller_id) ==
    /\ Len(active_connections) < MaxConnections
    /\ active_connections' = IF ~In(websocket, active_connections)
                             THEN Append(active_connections, websocket)
                             ELSE active_connections
    /\ LET connections == IF seller_id \notin DOMAIN seller_connections
                          THEN <<>>
                          ELSE seller_connections[seller_id]
           appended == IF ~In(websocket, connections)
                       THEN Append(connections, websocket)
                       ELSE connections
       IN  seller_connections' =
              [k \in DOMAIN seller_connections \cup {seller_id} |->
                  IF k = seller_id THEN appended ELSE seller_connections[k]]
    /\ UNCHANGED admin_connections
    /\ ManagerStep

(* --------------------------- specification ---------------------------- *)
StatusInputs == OverrideStatusAllowed \cup {"Pending"}
ReturnStatusInputs == OverrideReturnAllowed \cup {"Refunded"}

Next ==
    \/ Tick
    \/ \E u \in {2}, p \in DOMAIN products, v \in {NULL_ID} \cup DOMAIN variants :
          add_to_cart(u, p, v)
    \/ \E u \in Customers, a \in 0..1 : create_order(u, a)
    \/ \E u \in UserIds, i \in ItemIds : accept_order_item(u, i)
    \/ \E u \in UserIds, i \in ItemIds, r \in Reasons : reject_order_item(u, i, r)
    \/ \E u \in UserIds, i \in ItemIds, s \in StatusInputs, r \in Reasons :
          admin_override_order_item_status(u, i, s, r)
    \/ \E u \in UserIds, i \in ItemIds, s \in ReturnStatusInputs, n \in Notes :
          admin_override_return_status(u, i, s, n)
    \/ \E u \in UserIds, i \in ItemIds, r \in ReturnReasons, n \in Notes : request_return(u, i, r, n)
    \/ \E u \in UserIds, i \in ItemIds : cancel_return(u, i)
    \/ \E u \in UserIds, i \in ItemIds : accept_return(u, i)
    \/ \E u \in UserIds, i \in ItemIds, n \in Notes : reject_return(u, i, n)
    \/ \E u \in UserIds, i \in ItemIds : mark_return_received(u, i)

Spec == Init /\ [][Next]_vars

(* ---------------------- one cart line, one item ----------------------- *)
\* the tables after customer 2 has put one product into the cart
InitItem ==
    /\ users = InitUsers
    /\ addresses = InitAddresses
    /\ products = InitProducts
    /\ variants = InitVariants
    /\ \E p \in DOMAIN products, v \in {NULL_ID} \cup DOMAIN variants :
          /\ IF VariantsOf(p) /= {} THEN v \in VariantsOf(p) ELSE v = NULL_ID
          /\ cart_items = {[user_id |-> 2, product_id |-> p, variant_id |-> v, quantity |-> 1]}
          /\ response = Resp("add_to_cart", 2, p, 200, <<>>)
    /\ sessions = <<>>
    /\ issued = {}
    /\ InitManager
    /\ orders = <<>>
    /\ order_items = <<>>
    /\ now = 1
    /\ overrides = [status |-> 0, return_status |-> 0]

\* checkout and every request that writes a row of order_items
NextItem ==
    \/ Tick
    \/ \E u \in Customers, a \in 0..1 : create_order(u, a)
    \/ \E u \in UserIds, i \in ItemIds : accept_order_item(u, i)
    \/ \E u \in UserIds, i \in ItemIds, r \in Reasons : reject_order_item(u, i, r)
    \/ \E u \in UserIds, i \in ItemIds, s \in StatusInputs, r \in Reasons :
          admin_override_order_item_status(u, i, s, r)
    \/ \E u \in UserIds, i \in ItemIds, s \in ReturnStatusInputs, n \in Notes :
          admin_override_return_status(u, i, s, n)
    \/ \E u \in UserIds, i \in ItemIds, r \in ReturnReasons, n \in Notes : request_return(u, i, r, n)
    \/ \E u \in UserIds, i \in ItemIds : cancel_return(u, i)
    \/ \E u \in UserIds, i \in ItemIds : accept_return(u, i)
    \/ \E u \in UserIds, i \in ItemIds, n \in Notes : reject_return(u, i, n)
    \/ \E u \in UserIds, i \in ItemIds : mark_return_received(u, i)

SpecItem == InitItem /\ [][NextItem]_vars

(* ---------------------- one item and the catalog ---------------------- *)
\* the products of the cart lines and of the order items
OrderedProducts ==
    (DOMAIN products) \cap ({c.product_id : c \in cart_items}
                             \cup {order_items[i].product_id : i \in DOMAIN order_items})

\* the cart line of InitItem, its checkout, every request that writes the item, and every
\* request that edits or deletes the product and the variant it was taken from
NextCatalog ==
    \/ \E u \in Customers, a \in 0..1 : create_order(u, a)
    \/ \E u \in UserIds, i \in ItemIds : accept_order_item(u, i)
    \/ \E u \in UserIds, i \in ItemIds : reject_order_item(u, i, "damaged")
    \/ \E u \in UserIds, i \in ItemIds, s \in StatusInputs :
          admin_override_order_item_status(u, i, s, NULL)
    \/ \E u \in UserIds, i \in ItemIds, s \in ReturnStatusInputs :
          admin_override_return_status(u, i, s, NULL)
    \/ \E u \in UserIds, i \in ItemIds, r \in ReturnReasons : request_return(u, i, r, NULL)
    \/ \E u \in UserIds, i \in ItemIds : cancel_return(u, i)
    \/ \E u \in UserIds, i \in ItemIds : accept_return(u, i)
    \/ \E u \in UserIds, i \in ItemIds : reject_return(u, i, NULL)
    \/ \E u \in UserIds, i \in ItemIds : mark_return_received(u, i)
    \/ \E u \in UserIds, p \in OrderedProducts, data \in ProductUpdates :
          update_seller_product(u, p, data)
    \/ \E u \in UserIds, p \in OrderedProducts, data \in ProductUpdates :
          update_admin_product(u, p, data)
    \/ \E u \in UserIds, v \in DOMAIN variants, data \in VariantUpdates :
          update_product_variant(u, v, data)
    \/ \E u \in UserIds, p \in OrderedProducts, v \in DOMAIN variants, data \in VariantUpdates :
          update_admin_product_variant(u, p, v, data)
    \/ \E u \in UserIds, v \in DOMAIN variants : delete_product_variant(u, v)
    \/ \E u \in UserIds, p \in OrderedProducts, v \in DOMAIN variants :
          delete_admin_product_variant(u, p, v)
    \/ \E p \in OrderedProducts : delete_product(p)
    \/ \E u \in UserIds, p \in OrderedProducts : delete_seller_product(u, p)
    \/ \E u \in UserIds, p \in OrderedProducts : delete_admin_product(u, p)

SpecCatalog == InitItem /\ [][NextCatalog]_vars

(* ------------------------ carts and checkout -------------------------- *)
\* product ids a request can name: the initial products and one id that no product has
ProductInputs == 1..(Max(DOMAIN InitProducts) + 1)

\* from construction: the cart requests, checkout, and the deletions of accounts, products
\* and variants that take rows away under carts and orders
NextCheckout ==
    \/ \E u \in Customers, p \in ProductInputs, v \in {NULL_ID} \cup DOMAIN variants :
          add_to_cart_within(MaxLines, u, p, v, 1)
    \/ \E u \in Customers, p \in ProductInputs : increase_cart_item(MaxLines, u, p)
    \/ \E u \in Customers, p \in ProductInputs : set_cart_item_quantity(u, p, 1)
    \/ \E u \in Customers, a \in 0..1 : create_order(u, a)
    \/ \E u \in UserIds, user_id \in UserIds : delete_user(u, user_id)
    \/ \E u \in UserIds, user_id \in UserIds : delete_seller(u, user_id)
    \/ \E u \in UserIds, v \in DOMAIN variants : delete_product_variant(u, v)
    \/ \E u \in UserIds, p \in DOMAIN products : delete_admin_product(u, p)

SpecCheckout == Init /\ [][NextCheckout]_vars

(* ------------------ products and their verification ------------------ *)
NextVerification ==
    \/ \E u \in UserIds, data \in ProductCreates : create_seller_product(u, data)
    \/ \E u \in UserIds, p \in DOMAIN products, data \in ProductUpdates :
          update_seller_product(u, p, data)
    \/ \E u \in UserIds, p \in DOMAIN products, data \in ProductUpdates :
          update_admin_product(u, p, data)
    \/ \E u \in UserIds, p \in DOMAIN products : approve_product(u, p)
    \/ \E u \in UserIds, p \in DOMAIN products : reject_product(u, p)
    \/ \E u \in UserIds, p \in DOMAIN products : verify_product_legacy(u, p)
    \/ \E u \in UserIds, p \in DOMAIN products : delete_seller_product(u, p)

SpecVerification == Init /\ [][NextVerification]_vars

(* --------------------------- address books ---------------------------- *)
AddressInputs == 1..MaxAddresses

NextAddresses ==
    \/ \E u \in Customers, tag \in Tags : create_address(u, tag)
    \/ \E u \in Customers, a \in AddressInputs, tag \in Tags : update_address(u, a, tag)
    \/ \E u \in Customers, a \in AddressInputs : set_default_address(u, a)
    \/ \E u \in Customers, a \in AddressInputs : delete_address(u, a)

SpecAddresses == Init /\ [][NextAddresses]_vars

(* --------------------------- reset tokens ----------------------------- *)
NextTokens ==
    \/ TickWithin(MaxTokenClock)
    \/ \E e \in Customers \cup {Max(Emails)} : forgot_password(e)
    \/ \E e \in Customers \cup {Max(Emails)}, c \in Credentials, p \in Passwords :
          reset_password(e, c, p)

SpecTokens == Init /\ [][NextTokens]_vars

(* ----------------------- websocket connections ------------------------ *)
NextSockets ==
    \/ \E websocket \in Sockets : connect(websocket)
    \/ \E websocket \in Sockets : connect_admin(websocket)
    \/ \E websocket \in Sockets, seller_id \in SellerIds : connect_seller(websocket, seller_id)
    \/ \E websocket \in Sockets : disconnect(websocket)

SpecSockets == Init /\ [][NextSockets]_vars

(* -------------------------- cart quantities --------------------------- *)
\* the quantities a request body may name
Quantities == (0 - MaxQuantity)..MaxQuantity

NextQuantities ==
    \/ \E u \in Customers, p \in DOMAIN products, v \in {NULL_ID} \cup DOMAIN variants,
          q \in Quantities :
          add_to_cart_within(MaxLines, u, p, v, q)
    \/ \E u \in Customers, p \in DOMAIN products : increase_cart_item(MaxLines, u, p)
    \/ \E u \in Customers, p \in DOMAIN products : decrease_cart_item(u, p)
    \/ \E u \in Customers, p \in DOMAIN products, q \in Quantities :
          set_cart_item_quantity(u, p, q)
    \/ \E u \in Customers, a \in 0..1 : create_order(u, a)

SpecQuantities == Init /\ [][NextQuantities]_vars

(* ------------------------- seller accounts ---------------------------- *)
\* the sellers an admin decides on: those with products and those registered since
SellerTargets ==
    {products[p].seller_id : p \in DOMAIN products} \cup (DOMAIN users \ DOMAIN InitUsers)

\* checkout, accept, reject and the admin return override to the states a seller decides
\* on, with the requests that write a seller's account
NextSellers ==
    \/ Tick
    \/ \E u \in Customers, a \in 0..1 : create_order(u, a)
    \/ \E u \in UserIds, i \in ItemIds : accept_order_item(u, i)
    \/ \E u \in UserIds, i \in ItemIds, r \in Reasons : reject_order_item(u, i, r)
    \/ \E u \in UserIds, i \in ItemIds, s \in ReturnDecisionLegalFrom \cup MarkReceivedLegalFrom :
          admin_override_return_status(u, i, s, NULL)
    \/ \E e \in Emails, o \in Otps : register_seller(e, o)
    \/ \E e \in Emails, o \in Otps : verify_otp(e, o)
    \/ \E e \in Emails, o \in Otps, sent \in BOOLEAN : resend_otp(e, o, sent)
    \/ \E u \in UserIds, t \in SellerTargets : approve_seller(u, t)
    \/ \E u \in UserIds, t \in SellerTargets : reject_seller(u, t)
    \/ \E u \in UserIds, t \in SellerTargets : block_seller(u, t)

SpecSellers == InitItem /\ [][NextSellers]_vars

(* ------------------- aggregate recomputation alone -------------------- *)
\* an order row with the given previous status and one item per listed status
FoldItem(status) ==
    [NewOrderItem(1, [user_id |-> 2, product_id |-> 1, variant_id |-> 1, quantity |-> 1])
        EXCEPT !.status = status]

InitAggregate ==
    /\ users = InitUsers
    /\ addresses = InitAddresses
    /\ products = InitProducts
    /\ variants = InitVariants
    /\ cart_items = {}
    /\ \E prev \in OrderStatuses : orders = (1 :> [user_id |-> 2, status |-> prev])
    /\ \E n \in 0..MaxFold : \E statuses \in [1..n -> ItemStatuses] :
          order_items = [k \in 1..n |-> FoldItem(statuses[k])]
    /\ now = 1
    /\ overrides = [status |-> 0, return_status |-> 0]
    /\ response = NoResponse
    /\ sessions = <<>>
    /\ issued = {}
    /\ InitManager

\* one call of update_order_status_from_items(order_id, db)
recompute(order_id) ==
    /\ \E listing \in Listings(ItemsOf(order_id, order_items)) :
          orders' = update_order_status_from_items(order_id, orders, order_items, listing)
    /\ response' = Resp("update_order_status_from_items", 0, order_id, 200, <<>>)
    /\ UNCHANGED <<users, addresses, products, variants, cart_items, order_items, now, overrides, sessions,
                 issued, active_connections, admin_connections, seller_connections>>

NextAggregate == \E order_id \in 1..2 : recompute(order_id)

SpecAggregate == InitAggregate /\ [][NextAggregate]_vars

(* ----------------- accept and reject, step by step -------------------- *)
\* Each request has a Session of its own (get_db) and the endpoints are plain "def"s, which
\* the server runs on worker threads: the handlers of two requests interleave between
\* their statements.  A handler goes through three steps: the query that loads the item
\* (pc "loaded"), the first db.commit(), which writes the item ("committed"), and the
\* db.commit() of update_order_status_from_items, which writes the order ("done").

\* the columns the handler assigns between the query and the first commit
Assigned(session) ==
    IF session.op = "accept_order_item"
    THEN [status |-> "Accepted", rejection_reason |-> NULL]
    ELSE [status |-> "Rejected", rejection_reason |-> session.reason]

\* the row after the UPDATE of the first commit: the unit of work writes the columns
\* whose assigned value differs from the value the session loaded, and no other column
Flushed(row, session) ==
    [c \in DOMAIN row |->
        IF c \in DOMAIN Assigned(session) /\ Assigned(session)[c] /= session.loaded[c]
        THEN Assigned(session)[c]
        ELSE row[c]]

NewSession(op, u, i, reason) ==
    [op |-> op, caller |-> u, item |-> i, reason |-> reason,
     loaded |-> order_items[i], pc |-> "loaded"]

\* accept_order_item up to, and without, "item.status = ..."
begin_accept(u, i) ==
    /\ Len(sessions) < MaxSessions
    /\ seller_only(u) = <<>>
    /\ SellerItemFound(i, u)
    /\ order_items[i].status \in AcceptLegalFrom
    /\ sessions' = Append(sessions, NewSession("accept_order_item", u, i, NULL))
    /\ UNCHANGED <<users, addresses, products, variants, cart_items, orders, order_items, now,
                   overrides, response,
                 issued, active_connections, admin_connections, seller_connections>>

\* reject_order_item up to, and without, "item.status = ..."
begin_reject(u, i, reason) ==
    /\ Len(sessions) < MaxSessions
    /\ seller_only(u) = <<>>
    /\ SellerItemFound(i, u)
    /\ order_items[i].status \in RejectLegalFrom
    /\ sessions' = Append(sessions, NewSession("reject_order_item", u, i, reason))
    /\ UNCHANGED <<users, addresses, products, variants, cart_items, orders, order_items, now,
                   overrides, response,
                 issued, active_connections, admin_connections, seller_connections>>

\* "item.status = ...; item.rejection_reason = ...; db.commit()"
commit_item(k) ==
    /\ sessions[k].pc = "loaded"
    /\ order_items' = [order_items EXCEPT ![sessions[k].item] = Flushed(@, sessions[k])]
    /\ sessions' = [sessions EXCEPT ![k].pc = "committed"]
    /\ UNCHANGED <<users, addresses, products, variants, cart_items, orders, now, overrides,
                   response,
                 issued, active_connections, admin_connections, seller_connections>>

\* "db.refresh(item); update_order_status_from_items(item.order_id, db)" and the response
commit_order(k) ==
    /\ sessions[k].pc = "committed"
    /\ \E listing \in SiblingListings(sessions[k].item) :
          orders' = update_order_status_from_items(order_items[sessions[k].item].order_id,
                                                   orders, order_items, listing)
    /\ response' = Resp(sessions[k].op, sessions[k].caller, sessions[k].item, 200, <<>>)
    /\ sessions' = [sessions EXCEPT ![k].pc = "done"]
    /\ UNCHANGED <<users, addresses, products, variants, cart_items, order_items, now,
                   overrides,
                 issued, active_connections, admin_connections, seller_connections>>

\* the worker stops between the two commits (it is killed, or the second transaction
\* raises because the database is locked): the first commit stays
fail_after_commit_item(k) ==
    /\ sessions[k].pc = "committed"
    /\ response' = Resp(sessions[k].op, sessions[k].caller, sessions[k].item, 500, <<>>)
    /\ sessions' = [sessions EXCEPT ![k].pc = "failed"]
    /\ UNCHANGED <<users, addresses, products, variants, cart_items, orders, order_items, now,
                   overrides,
                 issued, active_connections, admin_connections, seller_connections>>

NextRace ==
    \/ \E u \in Customers, a \in 0..1 : create_order(u, a)
    \/ \E u \in UserIds, i \in ItemIds : begin_accept(u, i)
    \/ \E u \in UserIds, i \in ItemIds, r \in Reasons : begin_reject(u, i, r)
    \/ \E k \in DOMAIN sessions : commit_item(k)
    \/ \E k \in DOMAIN sessions : commit_order(k)
    \/ \E k \in DOMAIN sessions : fail_after_commit_item(k)

SpecRace == InitItem /\ [][NextRace]_vars

(* ============================== claims ================================ *)
\* the aggregate the specification derives from the statuses S of an order's items
DerivedStatus(S) ==
    IF S = {"Delivered"} THEN "Completed"
    ELSE IF S = {"Rejected"} THEN "Cancelled"
    ELSE "Active"

StatusesOf(order_id) == {order_items[i].status : i \in ItemsOf(order_id, order_items)}

\* u is an approved seller and item i is routed to u
OwningSeller(u, i) ==
    /\ users[u].role = "seller" /\ users[u].is_approved
    /\ order_items[i].seller_id = u

\* u is a customer and item i belongs to an order of u
OwningCustomer(u, i) ==
    /\ users[u].role = "customer"
    /\ order_items[i].order_id \in DOMAIN orders
    /\ orders[order_items[i].order_id].user_id = u

\* the handler raised: the tables are the ones it read
Untouched(result) ==
    /\ result.order_items = order_items
    /\ result.orders = orders
    /\ result.cart_items = cart_items

\* C1: once checkout, accept, reject or admin override-status has completed, the status
\* of every order equals the derivation over its items (Completed if all Delivered,
\* Cancelled if all Rejected, Active otherwise); in particular an order whose items
\* were all set to Delivered by admin override-status is Completed.
C1_OrderStatusDerivedFromItems ==
    \A o \in DOMAIN orders :
        StatusesOf(o) /= {} => orders[o].status = DerivedStatus(StatusesOf(o))

\* C2: update_order_status_from_items sets a non-empty order to Completed exactly when
\* all items are Delivered, to Cancelled exactly when all are Rejected and to Active
\* otherwise, whatever the listing order of the items and the previous order status.
C2_AggregateDerivation ==
    (response.op = "update_order_status_from_items" /\ response.item = 1 /\ StatusesOf(1) /= {})
        => /\ orders[1].status = DerivedStatus(StatusesOf(1))
           /\ orders[1].status = "Completed" <=> \A i \in DOMAIN order_items : order_items[i].status = "Delivered"
           /\ orders[1].status = "Cancelled" <=> \A i \in DOMAIN order_items : order_items[i].status = "Rejected"

\* an order of several items with a mixed aggregate has been recomputed from Completed
C2_Witness ==
    /\ response.op = "update_order_status_from_items" /\ response.item = 1
    /\ Cardinality(DOMAIN order_items) = MaxFold
    /\ order_items[1].status = "Rejected" /\ order_items[2].status = "Delivered"
    /\ orders[1].status = "Active"

\* C3: for an owning approved seller, accept succeeds (status becomes Accepted) iff the
\* item is Pending or Rejected; otherwise it fails with a 400 that names the current
\* status and leaves the item and its order unchanged.
C3_AcceptLegality ==
    \A i \in DOMAIN order_items : \A u \in UserIds : \A listing \in SiblingListings(i) :
        OwningSeller(u, i) =>
            LET r == accept_order_item_result(u, i, listing) IN
            IF order_items[i].status \in {"Pending", "Rejected"}
            THEN /\ r.response.code = 200
                 /\ r.order_items[i].status = "Accepted"
            ELSE /\ r.response.code = 400
                 /\ r.response.detail[Len(r.response.detail)] = order_items[i].status
                 /\ Untouched(r)

\* the owning seller has accepted an item
C3_Witness ==
    /\ response.op = "accept_order_item" /\ response.code = 200
    /\ OwningSeller(response.caller, response.item)
    /\ order_items[response.item].status = "Accepted"

\* C4: for an owning approved seller, reject succeeds iff the item is Pending or
\* Accepted; on success status is Rejected and rejection_reason is the supplied reason
\* verbatim (null when none); otherwise it fails with a 400 and status,
\* rejection_reason and the order's status are unchanged.
C4_RejectLegality ==
    \A i \in DOMAIN order_items : \A u \in UserIds : \A listing \in SiblingListings(i) :
        \A reason \in Reasons :
        OwningSeller(u, i) =>
            LET r == reject_order_item_result(u, i, reason, listing) IN
            IF order_items[i].status \in {"Pending", "Accepted"}
            THEN /\ r.response.code = 200
                 /\ r.order_items[i].status = "Rejected"
                 /\ r.order_items[i].rejection_reason = reason
            ELSE /\ r.response.code = 400
                 /\ Untouched(r)

\* the owning seller has rejected an item with a reason
C4_Witness ==
    /\ response.op = "reject_order_item" /\ response.code = 200
    /\ OwningSeller(response.caller, response.item)
    /\ order_items[response.item].status = "Rejected"
    /\ order_items[response.item].rejection_reason = "damaged"

\* C5: after any successful accept the item's rejection_reason is null, whether the
\* state it was accepted from came from a seller reject or an admin override-status.
C5_AcceptClearsRejectionReason ==
    [][\A i \in DOMAIN order_items :
         (response'.op = "accept_order_item" /\ response'.item = i
          /\ order_items'[i].status = "Accepted" /\ order_items[i].status /= "Accepted")
            => order_items'[i].rejection_reason = NULL]_vars

\* an item rejected by admin override has been accepted by its seller
C5_Witness ==
    /\ response.op = "accept_order_item" /\ response.code = 200
    /\ overrides.status > 0
    /\ order_items[response.item].status = "Accepted"
    /\ order_items[response.item].rejection_reason = NULL

\* the return fields of an order-item row that request and cancel write
ReturnFields(item) ==
    <<item.return_status, item.return_reason, item.return_notes, item.return_requested_at>>

\* C6: for the customer who owns the order, a return request succeeds iff the item is
\* Delivered, its return_status is "None" and it is return eligible; on success
\* return_status is ReturnRequested and return_reason, return_notes and
\* return_requested_at are set from the request; otherwise it fails with a 400 and the
\* return fields are unchanged.
C6_ReturnRequestGating ==
    \A i \in DOMAIN order_items : \A u \in UserIds :
        \A reason \in ReturnReasons : \A notes \in Notes :
        OwningCustomer(u, i) =>
            LET r == request_return_result(u, i, reason, notes) IN
            IF /\ order_items[i].status = "Delivered"
               /\ order_items[i].return_status = "None"
               /\ order_items[i].is_return_eligible
            THEN /\ r.response.code = 200
                 /\ r.order_items[i].return_status = "ReturnRequested"
                 /\ r.order_items[i].return_reason = reason
                 /\ r.order_items[i].return_notes = notes
                 /\ r.order_items[i].return_requested_at = now
                 /\ r.order_items[i].return_requested_at /= NULL_TIME
            ELSE /\ r.response.code = 400
                 /\ Untouched(r)

\* the owning customer has requested the return of a delivered item
C6_Witness ==
    /\ response.op = "request_return" /\ response.code = 200
    /\ OwningCustomer(response.caller, response.item)
    /\ order_items[response.item].status = "Delivered"
    /\ order_items[response.item].return_status = "ReturnRequested"
    /\ order_items[response.item].return_requested_at /= NULL_TIME

\* cancel by the owning customer: legal only from ReturnRequested, resets the request
C7_CancelResets ==
    \A i \in DOMAIN order_items : \A u \in UserIds :
        LET r == cancel_return_result(u, i) IN
        /\ r.response.code = 200 =>
              /\ order_items[i].return_status = "ReturnRequested"
              /\ OwningCustomer(u, i)
              /\ ReturnFields(r.order_items[i]) = <<"None", NULL, NULL, NULL_TIME>>
        /\ r.response.code /= 200 => Untouched(r)
        /\ (OwningCustomer(u, i) /\ order_items[i].return_status = "ReturnRequested")
              => r.response.code = 200

\* the return fields of item i after the request that this step made has been cancelled
\* by the same customer
FieldsAfterCancel(i) ==
    ReturnFields(cancel_return_result(response.caller, i).order_items[i])

\* C7 (as claimed): cancel succeeds only from ReturnRequested for the owner and leaves
\* return_status "None" with reason, notes and requested_at null, so that a request
\* followed by a cancel restores the return fields the item had before the request.
C7_RequestCancelRestores ==
    [][/\ C7_CancelResets
       /\ \A i \in DOMAIN order_items :
            (response'.op = "request_return" /\ response'.item = i
             /\ order_items'[i] /= order_items[i])
               => FieldsAfterCancel(i)' = ReturnFields(order_items[i])]_vars

\* C7 (amended): as claimed, but the request-cancel round trip restores the return
\* fields only of an item whose return_reason, return_notes and return_requested_at
\* were null before the request; after it they are null whatever they were before.
C7_RequestCancelResets ==
    [][/\ C7_CancelResets
       /\ \A i \in DOMAIN order_items :
            (response'.op = "request_return" /\ response'.item = i
             /\ order_items'[i] /= order_items[i])
               => /\ FieldsAfterCancel(i)' = <<"None", NULL, NULL, NULL_TIME>>
                  /\ ReturnFields(order_items[i]) = <<"None", NULL, NULL, NULL_TIME>>
                        => FieldsAfterCancel(i)' = ReturnFields(order_items[i])]_vars

\* the owning customer has cancelled a return request
C7_Witness ==
    /\ response.op = "cancel_return" /\ response.code = 200
    /\ OwningCustomer(response.caller, response.item)
    /\ ReturnFields(order_items[response.item]) = <<"None", NULL, NULL, NULL_TIME>>

\* the fields a failed seller return operation must leave alone
ProcessingFields(item) == <<item.return_status, item.return_notes, item.return_processed_at>>

\* C8: for the owning seller, return accept and return reject succeed only from
\* ReturnRequested (giving ReturnAccepted resp. ReturnRejected) and markReceived only
\* from ReturnAccepted or ReturnInTransit (giving ReturnReceived); each success stamps
\* return_processed_at; otherwise the call fails with a 400 and return_status,
\* return_notes and return_processed_at are unchanged.
C8_SellerReturnLegality ==
    \A i \in DOMAIN order_items : \A u \in UserIds : \A notes \in Notes :
        OwningSeller(u, i) =>
            LET a == accept_return_result(u, i)
                j == reject_return_result(u, i, notes)
                m == mark_return_received_result(u, i)
                decided(r, target) ==
                    IF order_items[i].return_status = "ReturnRequested"
                    THEN /\ r.response.code = 200
                         /\ r.order_items[i].return_status = target
                         /\ r.order_items[i].return_processed_at = now
                         /\ r.order_items[i].return_processed_at /= NULL_TIME
                    ELSE /\ r.response.code = 400
                         /\ ProcessingFields(r.order_items[i]) = ProcessingFields(order_items[i])
                         /\ Untouched(r)
            IN  /\ decided(a, "ReturnAccepted")
                /\ decided(j, "ReturnRejected")
                /\ IF order_items[i].return_status \in {"ReturnAccepted", "ReturnInTransit"}
                   THEN /\ m.response.code = 200
                        /\ m.order_items[i].return_status = "ReturnReceived"
                        /\ m.order_items[i].return_processed_at = now
                        /\ m.order_items[i].return_processed_at /= NULL_TIME
                   ELSE /\ m.response.code = 400
                        /\ ProcessingFields(m.order_items[i]) = ProcessingFields(order_items[i])
                        /\ Untouched(m)

\* the owning seller has marked an accepted return as received, after the clock moved
C8_Witness ==
    /\ response.op = "mark_return_received" /\ response.code = 200
    /\ OwningSeller(response.caller, response.item)
    /\ order_items[response.item].return_status = "ReturnReceived"
    /\ order_items[response.item].return_processed_at = MaxClock

RuleCheckedReturnOps ==
    {"request_return", "cancel_return", "accept_return", "reject_return", "mark_return_received"}

\* C9: every change of an item's return_status made by request, cancel, return-accept,
\* return-reject or markReceived happens in a state in which the item's fulfillment
\* status is Delivered, also after admin override-status or override-return-status.
C9_ReturnChangesOnlyWhenDelivered ==
    [][\A i \in DOMAIN order_items :
         (response'.op \in RuleCheckedReturnOps
          /\ order_items'[i].return_status /= order_items[i].return_status)
            => order_items[i].status = "Delivered"]_vars

\* C10: a seller calling accept, reject, return-accept, return-reject or markReceived on
\* an item whose seller_id is not the caller's id (null included), and a customer
\* calling return request or cancel on an item of an order of another user, changes
\* no field of the item or of its order.
C10_OwnershipIsolation ==
    \A i \in DOMAIN order_items : \A u \in UserIds :
        /\ order_items[i].seller_id /= u =>
              /\ \A listing \in SiblingListings(i) :
                    /\ Untouched(accept_order_item_result(u, i, listing))
                    /\ accept_order_item_result(u, i, listing).response.code /= 200
                    /\ \A reason \in Reasons :
                          /\ Untouched(reject_order_item_result(u, i, reason, listing))
                          /\ reject_order_item_result(u, i, reason, listing).response.code /= 200
              /\ Untouched(accept_return_result(u, i))
              /\ \A notes \in Notes : Untouched(reject_return_result(u, i, notes))
              /\ Untouched(mark_return_received_result(u, i))
        /\ orders[order_items[i].order_id].user_id /= u =>
              /\ \A reason \in ReturnReasons : \A notes \in Notes :
                    Untouched(request_return_result(u, i, reason, notes))
              /\ Untouched(cancel_return_result(u, i))

\* an approved seller is refused a Pending item that is routed to no seller, and a
\* customer is refused a pending return request of another customer's order
C10_Witness ==
    \E i \in DOMAIN order_items :
        /\ order_items[i].seller_id = NULL_ID
        /\ order_items[i].status = "Pending"
        /\ order_items[i].return_status = "ReturnRequested"
        /\ accept_order_item_result(5, i, <<i>>).response.code = 403
        /\ accept_return_result(5, i).response.code = 404
        /\ cancel_return_result(3, i).response.code = 403

\* u is an approved seller and item i is routed to another seller
ForeignSeller(u, i) ==
    /\ users[u].role = "seller" /\ users[u].is_approved
    /\ order_items[i].seller_id /= NULL_ID
    /\ order_items[i].seller_id /= u

\* C11: an approved seller who calls accept or reject on an order item of another
\* seller is answered 404 (NotFound), not 403.
C11_ForeignItemIsNotFound ==
    \A i \in DOMAIN order_items : \A u \in UserIds : \A listing \in SiblingListings(i) :
        ForeignSeller(u, i) =>
            /\ accept_order_item_result(u, i, listing).response.code = 404
            /\ \A reason \in Reasons :
                  reject_order_item_result(u, i, reason, listing).response.code = 404

\* the status code and detail of a response
Answer(result) == <<result.response.code, result.response.detail>>

\* what seller u is answered by each of the five seller transitions on item id i
SellerAnswers(u, i) ==
    [accept        |-> {Answer(accept_order_item_result(u, i, l)) : l \in SiblingListings(i)},
     reject        |-> {Answer(reject_order_item_result(u, i, r, l)) :
                           r \in Reasons, l \in SiblingListings(i)},
     accept_return |-> Answer(accept_return_result(u, i)),
     reject_return |-> {Answer(reject_return_result(u, i, n)) : n \in Notes},
     mark_received |-> Answer(mark_return_received_result(u, i))]

\* C12: across a step that creates an item with id i routed to another seller, what an
\* approved seller is answered (status code and detail) by accept, reject,
\* return-accept, return-reject and markReceived on id i is the same before and after.
C12_ExistenceNotLeaked ==
    [][\A i \in ItemIds : \A u \in UserIds :
         (i \notin DOMAIN order_items /\ i \in DOMAIN order_items' /\ ForeignSeller(u, i)')
            => SellerAnswers(u, i)' = SellerAnswers(u, i)]_vars

\* checkout has just created an item of seller 4, and seller 5 is answered as for a
\* missing item
C12_Witness ==
    /\ response.op = "create_order" /\ response.code = 200
    /\ \E i \in DOMAIN order_items :
          /\ ForeignSeller(5, i)
          /\ SellerAnswers(5, i).accept = {<<403, <<"Order item not found or access denied">> >>}
          /\ SellerAnswers(5, i).accept_return = <<404, <<"Return item not found or access denied">> >>

\* u is an admin
IsAdmin(u) == users[u].role = "admin" \/ users[u].is_admin

\* C13: an admin who calls accept or reject (or return-accept, return-reject,
\* markReceived) on an item of any seller, in a state where the transition is legal,
\* succeeds.
C13_AdminMayActAsSeller ==
    \A i \in DOMAIN order_items : \A u \in UserIds : \A listing \in SiblingListings(i) :
        IsAdmin(u) =>
            /\ order_items[i].status \in {"Pending", "Rejected"}
                  => accept_order_item_result(u, i, listing).response.code = 200
            /\ order_items[i].status \in {"Pending", "Accepted"}
                  => \A reason \in Reasons :
                        reject_order_item_result(u, i, reason, listing).response.code = 200
            /\ order_items[i].return_status = "ReturnRequested"
                  => /\ accept_return_result(u, i).response.code = 200
                     /\ \A notes \in Notes : reject_return_result(u, i, notes).response.code = 200
            /\ order_items[i].return_status \in {"ReturnAccepted", "ReturnInTransit"}
                  => mark_return_received_result(u, i).response.code = 200

\* seller u has not verified the e-mail address, or is blocked, rejected or not yet approved
SellerOnHold(u) ==
    /\ users[u].role = "seller"
    /\ ~users[u].is_active \/ ~users[u].is_approved

\* the handler refused with 403 and wrote nothing
Denied(result) == result.response.code = 403 /\ Untouched(result)

\* C14: in every state reached through register-seller, verify-otp, resend-otp and admin
\* approve, reject and block, a seller whose is_active or is_approved is false is
\* denied accept, reject, return-accept, return-reject and markReceived with 403 and
\* no table changes; the caller is looked up when the request arrives, so this holds
\* for a token issued earlier.
C14_SellerOnHoldDenied ==
    \A u \in UserIds : \A i \in ItemIds :
        SellerOnHold(u) =>
            /\ \A l \in SiblingListings(i) :
                  /\ Denied(accept_order_item_result(u, i, l))
                  /\ \A r \in Reasons : Denied(reject_order_item_result(u, i, r, l))
            /\ Denied(accept_return_result(u, i))
            /\ \A n \in Notes : Denied(reject_return_result(u, i, n))
            /\ Denied(mark_return_received_result(u, i))

\* seller 4 has been blocked while a Pending item with a requested return is routed to
\* that seller
C14_Witness ==
    /\ response.op = "block_seller" /\ response.item = 4
    /\ ~users[4].is_active
    /\ \E i \in DOMAIN order_items :
          /\ order_items[i].seller_id = 4
          /\ order_items[i].status = "Pending"
          /\ order_items[i].return_status = "ReturnRequested"
          /\ accept_order_item_result(4, i, <<i>>).response.detail = <<"SellerNotApproved">>

\* C15: after checkout has created an order item, no request on products, variants or
\* the item changes the item's price, variant_size, variant_color, variant_image_url or
\* seller_id, for as long as the item exists.
SnapshotColumns == {"price", "variant_size", "variant_color", "variant_image_url", "seller_id"}

C15_SnapshotImmutable ==
    [][\A i \in DOMAIN order_items \cap DOMAIN order_items' : \A c \in SnapshotColumns :
          order_items'[i][c] = order_items[i][c]]_vars

\* an item whose variant has since been edited, so that a checkout now would snapshot
\* another size and another price
C15_Witness ==
    \E i \in DOMAIN order_items :
        /\ order_items[i].variant_id \in DOMAIN variants
        /\ order_items[i].product_id \in DOMAIN products
        /\ order_items[i].variant_size /= Snapshot(order_items[i].variant_id, "size")
        /\ order_items[i].price /= PriceOf(order_items[i].product_id, order_items[i].variant_id)
        /\ order_items[i].status /= "Pending"

\* C16: a variant delete, by the seller or by an admin, leaves no order item that
\* references the deleted variant, and leaves price, variant_size, variant_color and
\* variant_image_url of every item as they were.
VariantDeletes == {"delete_product_variant", "delete_admin_product_variant"}

C16_VariantDeleteNullsReference ==
    [][\A v \in DOMAIN variants :
          (v \notin DOMAIN variants' /\ response'.op \in VariantDeletes)
          => \A i \in DOMAIN order_items' :
                /\ order_items'[i].variant_id /= v
                /\ \A c \in SnapshotColumns : order_items'[i][c] = order_items[i][c]]_vars

\* C17: as long as no admin override-return-status request has been served, no item has
\* return_status RefundProcessed: request, cancel, return accept, return reject and
\* mark-received never write it.
C17_RefundOnlyByOverride ==
    overrides.return_status = 0
    => \A i \in DOMAIN order_items : order_items[i].return_status /= "RefundProcessed"

\* the return of an item has run to its last seller step without any override of it
C17_Witness ==
    /\ overrides.return_status = 0
    /\ \E i \in DOMAIN order_items : order_items[i].return_status = "ReturnReceived"

\* C18: a return_processed_at that is set stays set under every later request on the item
\* (mark-received, override-return-status to any target, return request, return cancel).
C18_ProcessedAtNeverCleared ==
    [][\A i \in DOMAIN order_items \cap DOMAIN order_items' :
          order_items[i].return_processed_at /= NULL_TIME
          => order_items'[i].return_processed_at /= NULL_TIME]_vars

\* a processed return that was afterwards overridden back to "None" or to ReturnRequested,
\* or requested anew
C18_Witness ==
    \E i \in DOMAIN order_items :
        /\ order_items[i].return_processed_at /= NULL_TIME
        /\ order_items[i].return_status \in {"None", "ReturnRequested"}

\* C19: the item status written by an accept or a reject and the order status recomputed
\* from it are persisted together: in no committed state has a request changed the item
\* while the order still has the status of before the recomputation.
OrderIsRecomputed(order_id) ==
    \A listing \in Listings(ItemsOf(order_id, order_items)) :
        update_order_status_from_items(order_id, orders, order_items, listing) = orders

C19_ItemAndOrderPersistedTogether ==
    \A k \in DOMAIN sessions :
        sessions[k].pc \in {"committed", "failed"}
        => OrderIsRecomputed(order_items[sessions[k].item].order_id)

\* C20: an accept and a reject with reason r that both loaded the item as Pending leave,
\* once both are through, (Accepted, null) or (Rejected, r) and no mixture of the two; two
\* accepts that both loaded it as Pending leave (Accepted, null).
Through(k) == sessions[k].pc \in {"done", "failed"}

C20_LastWriteWins ==
    \A a, b \in DOMAIN sessions :
        (/\ a /= b
         /\ sessions[a].item = sessions[b].item
         /\ sessions[a].op = "accept_order_item"
         /\ sessions[a].loaded.status = "Pending" /\ sessions[b].loaded.status = "Pending"
         /\ \A k \in DOMAIN sessions : Through(k))
        => LET row == order_items[sessions[a].item]
           IN  IF sessions[b].op = "accept_order_item"
               THEN <<row.status, row.rejection_reason>> = <<"Accepted", NULL>>
               ELSE <<row.status, row.rejection_reason>>
                        \in {<<"Accepted", NULL>>, <<"Rejected", sessions[b].reason>>}

\* C21: checkout is all or nothing.  A checkout that succeeds persists exactly one order,
\* Active, with exactly one item per cart line of the caller, each Pending with
\* return_status "None", and empties the caller's cart; a checkout that fails (no address,
\* no default address, empty cart, a cart line whose product is gone) persists no order and
\* no item and leaves the cart as it was.
CheckoutFails(u, address_id) ==
    \/ ~users[u].has_address
    \/ CheckoutAddresses(u, address_id) = {}
    \/ CartOf(u) = {}
    \/ \E c \in CartOf(u) : c.product_id \notin DOMAIN products

FailedCheckoutPersistsNothing ==
    \A u \in Customers \cap DOMAIN users, a \in 0..1 : \A listing \in Listings(CartOf(u)) :
        LET result == create_order_result(u, a, listing)
        IN  /\ CheckoutFails(u, a) => result.response.code /= 200
            /\ result.response.code /= 200
               => /\ result.orders = orders
                  /\ result.order_items = order_items
                  /\ result.cart_items = cart_items

CheckoutPersistsOrder ==
    (response'.op = "create_order" /\ DOMAIN orders' /= DOMAIN orders)
    => LET u         == response'.caller
           new_order == DOMAIN orders' \ DOMAIN orders
           new_items == DOMAIN order_items' \ DOMAIN order_items
       IN  /\ Cardinality(new_order) = 1
           /\ \A o \in new_order : orders'[o] = [user_id |-> u, status |-> "Active"]
           /\ \A o \in DOMAIN orders : orders'[o] = orders[o]
           /\ \A i \in DOMAIN order_items : order_items'[i] = order_items[i]
           /\ Cardinality(new_items) = Cardinality(CartOf(u))
           /\ \A c \in CartOf(u) : \E i \in new_items :
                 /\ order_items'[i].product_id = c.product_id
                 /\ order_items'[i].variant_id = c.variant_id
           /\ \A i \in new_items :
                 /\ order_items'[i].order_id \in new_order
                 /\ order_items'[i].status = "Pending"
                 /\ order_items'[i].return_status = "None"
           /\ cart_items' = cart_items \ CartOf(u)

C22_OrderHasItems ==
    \A o \in DOMAIN orders : ItemsOf(o, order_items) /= {}

\* C24: a cart line or an order item that a cart request or checkout creates for a product
\* that has a variant at that moment names a variant of that product.
NamesVariant(row) ==
    VariantsOf(row.product_id) /= {} => row.variant_id \in VariantsOf(row.product_id)

C24_CreatedRowsNameVariant ==
    [][/\ \A c \in cart_items' \ cart_items : NamesVariant(c)
       /\ \A i \in DOMAIN order_items' \ DOMAIN order_items : NamesVariant(order_items'[i])]_vars

\* C23: the customer-facing listing, paginated listing, search and detail queries return
\* a product only while its verification_status is Approved; a product becomes Approved
\* only by an admin approval and Rejected only by an admin rejection; every seller update
\* of a product leaves it Pending with is_verified false, hidden from customers.
Shown(p) ==
    \/ p \in get_products
    \/ p \in get_products_paginated
    \/ p \in search_products
    \/ p \in get_product(p)

Becomes(p, status) ==
    /\ p \in DOMAIN products'
    /\ products'[p].verification_status = status
    /\ p \in DOMAIN products => products[p].verification_status /= status

ByAdmin(ops) ==
    /\ response'.op \in ops
    /\ response'.caller \in DOMAIN users
    /\ admin_only(response'.caller) = <<>>

C23_ShownOnlyWhileApproved ==
    [][/\ \A p \in DOMAIN products' :
             /\ Shown(p)' => products'[p].verification_status = "Approved"
             /\ Becomes(p, "Approved")
                => ByAdmin({"approve_product", "verify_product_legacy"}) /\ response'.item = p
             /\ Becomes(p, "Rejected") => ByAdmin({"reject_product"}) /\ response'.item = p
       /\ response'.op = "update_seller_product"
          => /\ products'[response'.item].verification_status = "Pending"
             /\ ~products'[response'.item].is_verified
             /\ \A p \in DOMAIN products' : p = response'.item => ~Shown(p)']_vars

\* a product that was approved has just been edited by its seller
C23_Witness ==
    /\ response.op = "update_seller_product"
    /\ response.item \in DOMAIN InitProducts
    /\ products[response.item].verification_status = "Pending"
    /\ \E p \in DOMAIN products : products[p].verification_status = "Rejected"

\* C25: the fulfillment requests (accept, reject, admin override-status) leave the five
\* return columns of every item as they were; the return requests (request, cancel,
\* return accept, return reject, mark-received, admin override-return-status) leave status
\* and rejection_reason of every item and the status of every order as they were.
FulfillmentOps == {"accept_order_item", "reject_order_item", "admin_override_order_item_status"}
ReturnOps == {"request_return", "cancel_return", "accept_return", "reject_return",
              "mark_return_received", "admin_override_return_status"}
ReturnColumns == {"return_status", "return_reason", "return_notes", "return_requested_at",
                  "return_processed_at"}
FulfillmentColumns == {"status", "rejection_reason"}

Keeps(columns) ==
    \A i \in DOMAIN order_items \cap DOMAIN order_items' : \A c \in columns :
        order_items'[i][c] = order_items[i][c]

C25_MachinesOrthogonal ==
    [][/\ response'.op \in FulfillmentOps => Keeps(ReturnColumns)
       /\ response'.op \in ReturnOps => Keeps(FulfillmentColumns) /\ orders' = orders]_vars

\* a delivered item whose return has just been marked as received
C25_Witness ==
    /\ response.op = "mark_return_received"
    /\ \E i \in DOMAIN order_items :
          /\ order_items[i].status = "Delivered"
          /\ order_items[i].return_status = "ReturnReceived"

\* C26: for an admin, override-status of an existing item succeeds from every current
\* status for each target in {Accepted, Rejected, Cancelled, Shipped, Delivered} and
\* sets the status to the target; rejection_reason becomes the supplied reason when a
\* (non-empty) one is given, is cleared when none is given and the target is not
\* Rejected, and is kept when none is given and the target is Rejected; any other
\* target, Pending included, fails with a 400 and leaves the item unchanged.
C26_OverrideStatusTotal ==
    \A u \in UserIds : \A i \in DOMAIN order_items :
    \A target \in StatusInputs : \A reason \in Reasons :
        admin_only(u) = <<>> =>
            LET r == admin_override_order_item_status_result(u, i, target, reason)
                given == reason /= NULL /\ reason /= ""
            IN  IF target \in {"Accepted", "Rejected", "Cancelled", "Shipped", "Delivered"}
                THEN /\ r.response.code = 200
                     /\ r.order_items[i].status = target
                     /\ given => r.order_items[i].rejection_reason = reason
                     /\ (~given /\ target /= "Rejected")
                            => r.order_items[i].rejection_reason = NULL
                     /\ (~given /\ target = "Rejected")
                            => r.order_items[i].rejection_reason = order_items[i].rejection_reason
                ELSE /\ r.response.code = 400
                     /\ r.order_items[i] = order_items[i]
                     /\ Untouched(r)

\* an admin has overridden an item to Rejected and the item carries the reason
\* "damaged", given with the override or kept from before it
C26_Witness ==
    /\ response.op = "admin_override_order_item_status" /\ response.code = 200
    /\ admin_only(response.caller) = <<>>
    /\ response.item \in DOMAIN order_items
    /\ order_items[response.item].status = "Rejected"
    /\ order_items[response.item].rejection_reason = "damaged"

\* the user's default addresses
DefaultsOf(u) == {a \in AddressesOf(u) : a.is_default}

\* C27: after any sequence of create_address, update_address, set_default_address and
\* delete_address, has_address is true exactly when the user has at least one address,
\* a user with at least one address has exactly one default address, and so a checkout
\* of a user who has an address never fails with "No default address found".
C27_AddressBookConsistent ==
    \A u \in Customers :
        /\ users[u].has_address <=> AddressesOf(u) /= {}
        /\ AddressesOf(u) /= {} => Cardinality(DefaultsOf(u)) = 1
        /\ AddressesOf(u) /= {} =>
              \A listing \in Listings(CartOf(u)) :
                  create_order_result(u, NULL_ID, listing).response.detail
                      /= <<"No default address found. Please select an address.">>

\* validate_reset_token would accept token t for user u now
TokenValid(u, t) == u \in DOMAIN users /\ validate_reset_token(users[u].email, t).user = u

\* the tokens issued to user u so far
IssuedTo(u) == {i.token : i \in {j \in issued : j.user_id = u}}

TokenCredential(t) == [is_otp |-> FALSE, otp |-> NULL, token |-> t]

\* reset_password accepts token t with some e-mail and some new password
TokenAccepted(t) ==
    \E e \in Emails : \E p \in Passwords :
        reset_password_result(e, TokenCredential(t), p).response.code = 200

\* the last request was a successful reset of user u with token t
TokenUsed(u, t) ==
    /\ response.op = "reset_password" /\ response.code = 200
    /\ response.caller = u /\ response.item = t

\* C28: a reset token is single-use and unique per user: a user has at most one valid
\* token at any time, creating a new token makes every earlier token of the user
\* invalid, reset_password accepts a token only while the clock has not passed its
\* expiry, and after one successful reset the same token is rejected by every later
\* reset_password call.
C28_ResetTokenSingleUse ==
    /\ [](\A u \in DOMAIN users :
             Cardinality({t \in IssuedTo(u) : TokenValid(u, t)}) <= 1)
    /\ [][\A u \in DOMAIN users :
             IssuedTo(u)' /= IssuedTo(u)
                => \A t \in IssuedTo(u) : ~TokenValid(u, t)']_vars
    /\ [](\A t \in 1..MaxTokens :
             TokenAccepted(t)
                => \E u \in DOMAIN users :
                      /\ users[u].reset_token = t
                      /\ now <= users[u].reset_token_expires)
    /\ \A u \in Customers : \A t \in 1..MaxTokens :
          [](TokenUsed(u, t) => [] ~TokenAccepted(t))

\* a user whose first token was replaced by a second one has reset the password with
\* the second
C28_Witness ==
    /\ \E u \in Customers :
          /\ TokenUsed(u, 2)
          /\ IssuedTo(u) = {1, 2}
          /\ users[u].reset_token = NULL_TOKEN
          /\ users[u].hashed_password = hash_password("Another-Passw0rd")

\* every list of the manager that may hold a socket
ManagerLists(active, admins, sellers) ==
    {active, admins} \cup {sellers[seller_id] : seller_id \in DOMAIN sellers}

C29_QuantitiesPositive ==
    /\ \A c \in cart_items : c.quantity >= 1
    /\ \A i \in DOMAIN order_items : order_items[i].quantity >= 1

====
